---------------------------- MODULE Spec2Model ----------------------------
(***************************************************************************)
(* Model of the JSON access layer of json_value.h / parse.h: the tree of   *)
(* typed nodes, the ValueRef / ArrayRef / ObjectRef operations on it, the  *)
(* strict (get<T>) and permissive (as<T>) typed accessors and the numeric  *)
(* text parser detail::parse<T>.                                           *)
(*                                                                         *)
(* Integers of the program are up to 64 bits wide, wider than the model    *)
(* checker's own integers, so a program integer is a sign and a magnitude  *)
(* held as little-endian base-256 digits ("bytes").  Characters are their  *)
(* byte codes and a string is a sequence of byte codes, so that a string   *)
(* with an embedded NUL byte is a value of the model.                      *)
(***************************************************************************)
EXTENDS Integers, Sequences, FiniteSets, TLC

(***************************************************************************)
(* Bounds of the model.                                                    *)
(***************************************************************************)
\* longest text over Alphabet held by a String node
MaxStrLen == 2
\* most elements of an Array node
MaxArr == 2
\* most members of an Object node
MaxMembers == 3

(***************************************************************************)
(* Program integers: magnitudes as 9 little-endian bytes (72 bits: enough  *)
(* for 2^64, which is what double(UINT64_MAX) rounds to, and for every     *)
(* decimal text of up to 21 digits).                                       *)
(***************************************************************************)
ZeroMag == <<0, 0, 0, 0, 0, 0, 0, 0, 0>>

MagIdx == DOMAIN ZeroMag

\* the magnitude whose bytes are f(1), ..., f(9)
MkMag(f(_)) == <<f(1), f(2), f(3), f(4), f(5), f(6), f(7), f(8), f(9)>>

\* magnitude of a natural number below 2^31
MagOfNat(n) ==
    MkMag(LAMBDA i : IF i <= 4 THEN (n \div (256 ^ (i - 1))) % 256 ELSE 0)

\* the magnitude 2^k, 0 <= k < 72
Pow2Mag(k) ==
    MkMag(LAMBDA i : IF i = (k \div 8) + 1 THEN 2 ^ (k % 8) ELSE 0)

MagLt(a, b) ==
    \E i \in MagIdx : /\ a[i] < b[i]
                      /\ \A j \in MagIdx : j > i => a[j] = b[j]

MagLe(a, b) == a = b \/ MagLt(a, b)

RECURSIVE AddCarry(_, _, _)
AddCarry(a, b, i) ==
    IF i = 1 THEN 0 ELSE (a[i - 1] + b[i - 1] + AddCarry(a, b, i - 1)) \div 256

MagAdd(a, b) ==
    MkMag(LAMBDA i : (a[i] + b[i] + AddCarry(a, b, i)) % 256)

RECURSIVE MulCarry(_, _, _)
MulCarry(m, d, i) ==
    IF i = 1 THEN d ELSE (m[i - 1] * 10 + MulCarry(m, d, i - 1)) \div 256

\* m * 10 + d
MagMul10Add(m, d) ==
    MkMag(LAMBDA i : (m[i] * 10 + MulCarry(m, d, i)) % 256)

RECURSIVE DivRem(_, _)
DivRem(m, i) ==
    IF i = Len(m) THEN 0 ELSE (DivRem(m, i + 1) * 256 + m[i + 1]) % 10

MagDiv10(m) ==
    MkMag(LAMBDA i : (DivRem(m, i) * 256 + m[i]) \div 10)

MagMod10(m) == (DivRem(m, 1) * 256 + m[1]) % 10

\* the low nb bytes of m
LowBytes(m, nb) == MkMag(LAMBDA i : IF i <= nb THEN m[i] ELSE 0)

\* 2^(8 nb) - m, for 0 < m < 2^(8 nb)
TwoCompl(m, nb) ==
    LET k == CHOOSE i \in MagIdx : m[i] # 0 /\ \A j \in MagIdx : j < i => m[j] = 0
    IN  MkMag(LAMBDA i : IF i < k THEN 0
                         ELSE IF i = k THEN 256 - m[k]
                         ELSE IF i <= nb THEN 255 - m[i]
                         ELSE 0)

\* bit k (from 0) of m
Bit(m, k) == (m[(k \div 8) + 1] \div (2 ^ (k % 8))) % 2

BitLen(m) ==
    IF m = ZeroMag THEN 0
    ELSE 1 + CHOOSE k \in 0..(8 * Len(m) - 1) :
                /\ Bit(m, k) = 1
                /\ \A j \in 0..(8 * Len(m) - 1) : j > k => Bit(m, j) = 0

\* m with the bits below bit s cleared
ClearLow(m, s) ==
    MkMag(LAMBDA i :
        IF 8 * i <= s THEN 0
        ELSE IF 8 * (i - 1) >= s THEN m[i]
        ELSE (m[i] \div (2 ^ (s - 8 * (i - 1)))) * (2 ^ (s - 8 * (i - 1))))

(***************************************************************************)
(* A program integer is [neg, mag]; zero is never negative.                *)
(***************************************************************************)
MkNum(neg, mag) == [neg |-> neg /\ mag # ZeroMag, mag |-> mag]

\* the program integer of a model integer, |n| < 2^31
NumOf(n) == IF n < 0 THEN MkNum(TRUE, MagOfNat(0 - n)) ELSE MkNum(FALSE, MagOfNat(n))

NumZero == NumOf(0)

\* min(T) <= n <= max(T) for the signed / unsigned type of w bits
FitsSigned(n, w) ==
    IF n.neg THEN MagLe(n.mag, Pow2Mag(w - 1)) ELSE MagLt(n.mag, Pow2Mag(w - 1))

FitsUnsigned(n, w) == ~n.neg /\ MagLt(n.mag, Pow2Mag(w))


\* static_cast<T>(v) of an integer v to the integer type of w bits
StaticCast(n, w, signed) ==
    LET nb  == w \div 8
        low == LowBytes(n.mag, nb)
        u   == IF n.neg /\ low # ZeroMag THEN TwoCompl(low, nb) ELSE low
    IN  IF signed /\ ~MagLt(u, Pow2Mag(w - 1))
        THEN MkNum(TRUE, TwoCompl(u, nb))
        ELSE MkNum(FALSE, u)

(***************************************************************************)
(* Doubles.  A double of the model is a sign, an integer magnitude and a   *)
(* half: +-(mag + half/2).  Integers convert to double by rounding to 53   *)
(* significant bits, ties to even.                                         *)
(***************************************************************************)
RoundDouble(m) ==
    LET len == BitLen(m)
        s   == len - 53
    IN  IF len <= 53 THEN m
        ELSE LET up == /\ Bit(m, s - 1) = 1
                       /\ \/ Bit(m, s) = 1
                          \/ \E k \in 0..(s - 1) : k < s - 1 /\ Bit(m, k) = 1
             IN  IF up THEN MagAdd(ClearLow(m, s), Pow2Mag(s)) ELSE ClearLow(m, s)

\* the double of a model integer counting halves, |h| < 2^31
HalvesOf(h) ==
    LET a == IF h < 0 THEN 0 - h ELSE h
    IN  [num |-> [neg |-> h < 0, mag |-> MagOfNat(a \div 2)], half |-> a % 2 = 1]

(***************************************************************************)
(* Target types T of as<T> / get<T> / parse<T>.                            *)
(***************************************************************************)
SignedTypes == {"int8", "int16", "int32", "int64"}

UnsignedTypes == {"uint8", "uint16", "uint32", "uint64"}

IntTypes == SignedTypes \cup UnsignedTypes

Types == IntTypes \cup {"bool", "char", "double", "string"}

\* sizeof(T) * 8
Width(T) ==
    CASE T \in {"int8", "uint8", "char"} -> 8
      [] T \in {"int16", "uint16"} -> 16
      [] T \in {"int32", "uint32"} -> 32
      [] T \in {"int64", "uint64"} -> 64

\* std::is_signed<T>; char is signed on the modelled platform
IsSigned(T) == T \in SignedTypes \cup {"char"}

\* std::numeric_limits<T>::min() <= n <= std::numeric_limits<T>::max()
InRange(n, T) ==
    IF IsSigned(T) THEN FitsSigned(n, Width(T)) ELSE FitsUnsigned(n, Width(T))

(***************************************************************************)
(* Values handed back by the accessors, in one record shape.               *)
(***************************************************************************)
VNone == [ty |-> "none", b |-> FALSE, num |-> NumZero, half |-> FALSE, str |-> <<>>]

VBool(b) == [VNone EXCEPT !.ty = "bool", !.b = b]

VInt(n) == [VNone EXCEPT !.ty = "int", !.num = n]

VDbl(n, half) == [VNone EXCEPT !.ty = "double", !.num = n, !.half = half]

VStr(s) == [VNone EXCEPT !.ty = "string", !.str = s]

\* boost::optional<T>
None == [has |-> FALSE, val |-> VNone]

Some(v) == [has |-> TRUE, val |-> v]

(***************************************************************************)
(* Strings are sequences of byte codes.                                    *)
(***************************************************************************)
StrTrue == <<116, 114, 117, 101>>

StrFalse == <<102, 97, 108, 115, 101>>

\* the std::string built from a const char*: the bytes before the first NUL
CStr(s) ==
    IF \E i \in DOMAIN s : s[i] = 0
    THEN SubSeq(s, 1, (CHOOSE i \in DOMAIN s :
                          s[i] = 0 /\ \A j \in DOMAIN s : j < i => s[j] # 0) - 1)
    ELSE s

\* the value of a byte read as a char
CharVal(c) == IF c < 128 THEN NumOf(c) ELSE NumOf(c - 256)

IsSpace(c) == c = 32 \/ c \in 9..13

IsDigit(c) == c \in 48..57

RECURSIVE lower_string(_)
lower_string(s) ==
    IF s = <<>> THEN <<>>
    ELSE <<IF Head(s) \in 65..90 THEN Head(s) + 32 ELSE Head(s)>> \o lower_string(Tail(s))

\* the decimal digits of a magnitude, most significant first
RECURSIVE DecDigits(_)
DecDigits(m) ==
    IF m = ZeroMag THEN <<>> ELSE Append(DecDigits(MagDiv10(m)), 48 + MagMod10(m))

\* std::to_string of an integer
IntToString(n) ==
    LET d == IF n.mag = ZeroMag THEN <<48>> ELSE DecDigits(n.mag)
    IN  IF n.neg THEN <<45>> \o d ELSE d

\* std::to_string of a double: "%f"
DoubleToString(n, half) ==
    LET d == IF n.mag = ZeroMag THEN <<48>> ELSE DecDigits(n.mag)
        f == <<46, IF half THEN 53 ELSE 48, 48, 48, 48, 48, 48>>
    IN  IF n.neg THEN <<45>> \o d \o f ELSE d \o f


(***************************************************************************)
(* The C library's strtol / strtoul / strtod on a C string (no NUL in c):  *)
(* leading white space, an optional sign, then the longest run of decimal  *)
(* digits.  The texts of the model hold no '.', exponent, "0x", "inf" or   *)
(* "nan", so strtod reads the same syntax.                                 *)
(***************************************************************************)
\* index of the first character at or after p that fails Test, or Len(c)+1
SkipSpace(c) ==
    CHOOSE p \in 1..(Len(c) + 1) :
        /\ \A j \in 1..(p - 1) : IsSpace(c[j])
        /\ p <= Len(c) => ~IsSpace(c[p])

SkipDigits(c, q) ==
    CHOOSE e \in q..(Len(c) + 1) :
        /\ \A j \in q..(e - 1) : IsDigit(c[j])
        /\ e <= Len(c) => ~IsDigit(c[e])

\* the magnitude of the digits c[q..e-1], saturating at 2^64
DigitsStep(prev, d) ==
    IF ~MagLt(prev, Pow2Mag(64)) THEN Pow2Mag(64) ELSE MagMul10Add(prev, d)

RECURSIVE DigitsMag(_, _, _)
DigitsMag(c, q, e) ==
    IF e <= q THEN ZeroMag ELSE DigitsStep(DigitsMag(c, q, e - 1), c[e - 1] - 48)

\* what the scan finds: sign, first digit q, end of digits e
Scan(c) ==
    LET p    == SkipSpace(c)
        sgn  == p <= Len(c) /\ c[p] \in {43, 45}
        q    == IF sgn THEN p + 1 ELSE p
        e    == SkipDigits(c, q)
    IN  [neg   |-> sgn /\ c[p] = 45,
         conv  |-> e > q,
         atEnd |-> e = Len(c) + 1,
         mag   |-> DigitsMag(c, q, e)]

LONG_MAX == MkNum(FALSE, TwoCompl(MagAdd(Pow2Mag(63), MagOfNat(1)), 8))

LONG_MIN == MkNum(TRUE, Pow2Mag(63))

ULONG_MAX == MkNum(FALSE, TwoCompl(MagOfNat(1), 8))

\* conv: end != value_c_str; atEnd: '\0' == *end; erange: errno == ERANGE
strtol(c) ==
    LET s == Scan(c)
        v == MkNum(s.neg, s.mag)
        fits == FitsSigned(v, 64)
    IN  [conv   |-> s.conv,
         atEnd  |-> s.conv /\ s.atEnd,
         erange |-> s.conv /\ ~fits,
         val    |-> IF ~s.conv THEN NumZero
                    ELSE IF fits THEN v
                    ELSE IF s.neg THEN LONG_MIN ELSE LONG_MAX]

strtoul(c) ==
    LET s == Scan(c)
        fits == MagLt(s.mag, Pow2Mag(64))
    IN  [conv   |-> s.conv,
         atEnd  |-> s.conv /\ s.atEnd,
         erange |-> s.conv /\ ~fits,
         val    |-> IF ~s.conv THEN NumZero
                    ELSE IF ~fits THEN ULONG_MAX
                    ELSE IF s.neg THEN StaticCast(MkNum(TRUE, s.mag), 64, FALSE)
                    ELSE MkNum(FALSE, s.mag)]

strtod(c) ==
    LET s == Scan(c)
    IN  [conv   |-> s.conv,
         atEnd  |-> s.conv /\ s.atEnd,
         erange |-> FALSE,
         val    |-> IF ~s.conv THEN NumZero ELSE MkNum(s.neg, RoundDouble(s.mag))]

(***************************************************************************)
(* detail::parse<T>(const std::string& value): value.c_str() is read up to *)
(* its first NUL byte.                                                     *)
(***************************************************************************)
parse_bool(value) ==
    IF value # <<>> /\ lower_string(value) \in {StrTrue, StrFalse}
    THEN Some(VBool(lower_string(value) = StrTrue))
    ELSE None

parse_signed(value, T) ==
    IF value = <<>> THEN None
    ELSE LET r == strtol(CStr(value))
         IN  IF r.conv /\ r.atEnd /\ InRange(r.val, T) /\ ~r.erange
             THEN Some(VInt(StaticCast(r.val, Width(T), TRUE)))
             ELSE None

parse_unsigned(value, T) ==
    IF value = <<>> \/ (\E i \in DOMAIN value : value[i] = 45) THEN None
    ELSE LET r == strtoul(CStr(value))
         IN  IF r.conv /\ r.atEnd /\ InRange(r.val, T) /\ ~r.erange
             THEN Some(VInt(StaticCast(r.val, Width(T), FALSE)))
             ELSE None

parse_floating(value) ==
    IF value = <<>> THEN None
    ELSE LET r == strtod(CStr(value))
         IN  IF r.conv /\ r.atEnd /\ ~r.erange
             THEN Some(VDbl(r.val, FALSE))
             ELSE None

\* overload resolution of detail::parse<T>; T is an arithmetic type but char
parse(value, T) ==
    CASE T = "bool" -> parse_bool(value)
      [] T \in SignedTypes -> parse_signed(value, T)
      [] T \in UnsignedTypes -> parse_unsigned(value, T)
      [] T = "double" -> parse_floating(value)

\* detail::parse<T>(value, default_value)
parse_default(value, T, default_value) ==
    LET res == parse(value, T)
    IN  IF ~res.has THEN default_value ELSE res.val


(***************************************************************************)
(* Nodes of the tree (rapidjson::Value), in one record shape.  An integer  *)
(* node holds its value; the Int / Uint / Int64 / Uint64 flags rapidjson   *)
(* keeps are those the value's range gives.  An Array holds its elements   *)
(* in order, an Object its members [name, value] in insertion order.  A    *)
(* String, and the name of a member, is an owned copy of its bytes unless  *)
(* view is set: it then borrows the caller's bytes (SetString without an   *)
(* allocator, no copy flag).                                               *)
(***************************************************************************)
NullNode ==
    [kind |-> "Null", b |-> FALSE, num |-> NumZero, half |-> FALSE,
     str |-> <<>>, elems |-> <<>>, members |-> <<>>, view |-> FALSE]

BoolNode(b) == [NullNode EXCEPT !.kind = "Bool", !.b = b]

IntNode(n) == [NullNode EXCEPT !.kind = "Int", !.num = n]

DoubleNode(d) == [NullNode EXCEPT !.kind = "Double", !.num = d.num, !.half = d.half]

StringNode(s) == [NullNode EXCEPT !.kind = "String", !.str = s]

ArrayNode(es) == [NullNode EXCEPT !.kind = "Array", !.elems = es]

ObjectNode(ms) == [NullNode EXCEPT !.kind = "Object", !.members = ms]

Member(name, value) == [name |-> name, value |-> value, view |-> FALSE]

\* Value(s.data(), s.length()) / SetString(s.data(), s.length()): a String
\* that refers to the caller's bytes
StringView(s) == [StringNode(s) EXCEPT !.view = TRUE]

\* a member whose name refers to the caller's bytes
MemberView(name, value) == [Member(name, value) EXCEPT !.view = TRUE]

IsNull(v) == v.kind = "Null"

IsBool(v) == v.kind = "Bool"

IsString(v) == v.kind = "String"

IsArray(v) == v.kind = "Array"

IsObject(v) == v.kind = "Object"

IsDouble(v) == v.kind = "Double"

IsNumber(v) == v.kind \in {"Int", "Double"}

IsInt(v) == v.kind = "Int" /\ FitsSigned(v.num, 32)

IsUint(v) == v.kind = "Int" /\ FitsUnsigned(v.num, 32)

IsInt64(v) == v.kind = "Int" /\ FitsSigned(v.num, 64)

IsUint64(v) == v.kind = "Int" /\ FitsUnsigned(v.num, 64)

\* rapidjson GetDouble(): the payload of a Double, the conversion of an integer
GetDouble(v) ==
    IF IsDouble(v) THEN VDbl(v.num, v.half)
    ELSE VDbl(MkNum(v.num.neg, RoundDouble(v.num.mag)), FALSE)

(***************************************************************************)
(* ValueRef::get<T>: the strict accessors, one definition per overload.    *)
(***************************************************************************)
get_bool(v) == IF IsBool(v) THEN Some(VBool(v.b)) ELSE None

get_char(v) ==
    IF IsString(v) /\ Len(v.str) = 1 THEN Some(VInt(CharVal(v.str[1]))) ELSE None

get_int64(v) ==
    IF IsInt64(v) THEN Some(VInt(StaticCast(v.num, 64, TRUE))) ELSE None

\* get<T> for a signed T that leaves out the range test
get_signed_unchecked(v, T) ==
    IF IsInt(v) THEN Some(VInt(StaticCast(v.num, Width(T), TRUE))) ELSE None

get_signed(v, T) ==
    IF IsInt(v) /\ InRange(v.num, T)
    THEN Some(VInt(StaticCast(v.num, Width(T), TRUE)))
    ELSE None

get_uint64(v) ==
    IF IsUint64(v) THEN Some(VInt(StaticCast(v.num, 64, FALSE))) ELSE None

get_unsigned(v, T) ==
    IF IsUint(v) /\ InRange(v.num, T)
    THEN Some(VInt(StaticCast(v.num, Width(T), FALSE)))
    ELSE None

\* get<floating> that accepts only a node stored as a double
get_floating_strict(v) == IF IsDouble(v) THEN Some(GetDouble(v)) ELSE None

get_floating(v) == IF IsNumber(v) THEN Some(GetDouble(v)) ELSE None

get_string(v) == IF IsString(v) THEN Some(VStr(v.str)) ELSE None

\* overload resolution of ValueRef::get<T>
get(v, T) ==
    CASE T = "bool" -> get_bool(v)
      [] T = "char" -> get_char(v)
      [] T = "int64" -> get_int64(v)
      [] T \in SignedTypes \ {"int64"} -> get_signed(v, T)
      [] T = "uint64" -> get_uint64(v)
      [] T \in UnsignedTypes \ {"uint64"} -> get_unsigned(v, T)
      [] T = "double" -> get_floating(v)
      [] T = "string" -> get_string(v)

(***************************************************************************)
(* ValueRef::as<T>: the permissive accessors.  Each yields the SET of      *)
(* values the call can return: one value, except for static_cast of a      *)
(* double whose truncation is outside T's range, which is undefined        *)
(* behaviour (the low bits on x86, the saturated bound on ARM).            *)
(***************************************************************************)
\* std::numeric_limits<T>::max() / min() of the integer type of w bits
MaxOf(w, signed) ==
    IF signed THEN MkNum(FALSE, TwoCompl(MagAdd(Pow2Mag(w - 1), MagOfNat(1)), w \div 8))
    ELSE MkNum(FALSE, TwoCompl(MagOfNat(1), w \div 8))

MinOf(w, signed) == IF signed THEN MkNum(TRUE, Pow2Mag(w - 1)) ELSE NumZero

\* static_cast<T>(d) to an integer type of w bits: d truncated toward zero
Truncate(v) == MkNum(v.num.neg, v.num.mag)

CastDouble(v, w, signed) ==
    IF (IF signed THEN FitsSigned(Truncate(v), w) ELSE FitsUnsigned(Truncate(v), w))
    THEN {VInt(StaticCast(Truncate(v), w, signed))}
    ELSE {VInt(StaticCast(Truncate(v), w, signed)),
          VInt(MinOf(w, signed)), VInt(MaxOf(w, signed))}

\* static_cast<T>(i) of an integer payload, T arithmetic
CastInt(n, T) ==
    CASE T = "bool" -> VBool(n.mag # ZeroMag)
      [] T = "double" -> VDbl(MkNum(n.neg, RoundDouble(n.mag)), FALSE)
      [] OTHER -> VInt(StaticCast(n, Width(T), IsSigned(T)))

\* T(0), and the blank of as<char>
ZeroOf(T) ==
    CASE T = "bool" -> VBool(FALSE)
      [] T = "double" -> VDbl(NumZero, FALSE)
      [] T = "string" -> VStr(<<>>)
      [] T = "char" -> VInt(NumOf(32))
      [] OTHER -> VInt(NumZero)

\* as<char> whose fallback is NUL, not the space character
as_char_nul(v) ==
    IF IsNumber(v) THEN
        IF IsDouble(v) THEN CastDouble(v, 8, TRUE) ELSE {CastInt(v.num, "char")}
    ELSE IF IsString(v) /\ Len(v.str) > 0 THEN {VInt(CharVal(v.str[1]))}
    ELSE {VInt(NumOf(0))}

as_char(v) ==
    IF IsNumber(v) THEN
        IF IsInt(v) THEN {CastInt(v.num, "char")}
        ELSE IF IsUint(v) THEN {CastInt(v.num, "char")}
        ELSE IF IsInt64(v) THEN {CastInt(v.num, "char")}
        ELSE IF IsUint64(v) THEN {CastInt(v.num, "char")}
        ELSE CastDouble(v, 8, TRUE)
    ELSE IF IsString(v) /\ Len(v.str) > 0 THEN {VInt(CharVal(v.str[1]))}
    ELSE {VInt(NumOf(32))}

\* an as<T> that checks the range as get<T> does and falls back to 0
as_arithmetic_checked(v, T) ==
    IF IsNumber(v) /\ ~IsDouble(v) /\ T \in IntTypes /\ ~InRange(v.num, T)
    THEN {VInt(NumZero)}
    ELSE IF IsNumber(v) /\ ~IsDouble(v) THEN {CastInt(v.num, T)}
    ELSE IF IsNumber(v) /\ T = "bool" THEN {VBool(v.num.mag # ZeroMag \/ v.half)}
    ELSE IF IsNumber(v) /\ T = "double" THEN {VDbl(v.num, v.half)}
    ELSE IF IsNumber(v) THEN CastDouble(v, Width(T), IsSigned(T))
    ELSE IF IsBool(v) THEN {CastInt(IF v.b THEN NumOf(1) ELSE NumZero, T)}
    ELSE IF IsString(v) THEN {parse_default(CStr(v.str), T, ZeroOf(T))}
    ELSE {ZeroOf(T)}

as_arithmetic(v, T) ==
    IF IsNumber(v) THEN
        IF IsInt(v) THEN {CastInt(v.num, T)}
        ELSE IF IsUint(v) THEN {CastInt(v.num, T)}
        ELSE IF IsInt64(v) THEN {CastInt(v.num, T)}
        ELSE IF IsUint64(v) THEN {CastInt(v.num, T)}
        ELSE IF T = "bool" THEN {VBool(v.num.mag # ZeroMag \/ v.half)}
        ELSE IF T = "double" THEN {VDbl(v.num, v.half)}
        ELSE CastDouble(v, Width(T), IsSigned(T))
    ELSE IF IsBool(v) THEN {CastInt(IF v.b THEN NumOf(1) ELSE NumZero, T)}
    ELSE IF IsString(v) THEN {parse_default(CStr(v.str), T, ZeroOf(T))}
    ELSE {ZeroOf(T)}

as_string(v) ==
    IF IsNumber(v) THEN
        IF IsInt(v) THEN {VStr(IntToString(v.num))}
        ELSE IF IsUint(v) THEN {VStr(IntToString(v.num))}
        ELSE IF IsInt64(v) THEN {VStr(IntToString(v.num))}
        ELSE IF IsUint64(v) THEN {VStr(IntToString(v.num))}
        ELSE {VStr(DoubleToString(v.num, v.half))}
    ELSE IF IsBool(v) THEN {VStr(IF v.b THEN StrTrue ELSE StrFalse)}
    ELSE IF IsString(v) THEN {VStr(CStr(v.str))}
    ELSE {VStr(<<>>)}

\* overload resolution of ValueRef::as<T>
as(v, T) ==
    CASE T = "char" -> as_char(v)
      [] T = "string" -> as_string(v)
      [] OTHER -> as_arithmetic(v, T)


(***************************************************************************)
(* ArrayRef / ObjectRef.                                                   *)
(***************************************************************************)
\* a constructor that turns every node that is no Array into an empty Array
ArrayRef_ctor_coerce(v) ==
    IF ~IsArray(v) THEN [ok |-> TRUE, node |-> ArrayNode(<<>>)]
    ELSE [ok |-> TRUE, node |-> v]

\* ArrayRef(const ValueRef&): Null becomes an empty Array; ok = no throw
ArrayRef_ctor(v) ==
    IF IsNull(v) THEN [ok |-> TRUE, node |-> ArrayNode(<<>>)]
    ELSE IF ~IsArray(v) THEN [ok |-> FALSE, node |-> v]
    ELSE [ok |-> TRUE, node |-> v]

\* ObjectRef(const ValueRef&): Null becomes an empty Object; ok = no throw
ObjectRef_ctor(v) ==
    IF IsNull(v) THEN [ok |-> TRUE, node |-> ObjectNode(<<>>)]
    ELSE IF ~IsObject(v) THEN [ok |-> FALSE, node |-> v]
    ELSE [ok |-> TRUE, node |-> v]

\* a lookup that resolves to the last member named key
FindMember_last(ms, key) ==
    IF \E i \in DOMAIN ms : ms[i].name = key
    THEN CHOOSE i \in DOMAIN ms :
            ms[i].name = key /\ \A j \in DOMAIN ms : j > i => ms[j].name # key
    ELSE 0

\* rapidjson FindMember: position of the first member named key, 0 for MemberEnd()
FindMember(ms, key) ==
    IF \E i \in DOMAIN ms : ms[i].name = key
    THEN CHOOSE i \in DOMAIN ms :
            ms[i].name = key /\ \A j \in DOMAIN ms : j < i => ms[j].name # key
    ELSE 0

\* rapidjson AddMember: the new member goes last
AddMember(ms, name, value) == Append(ms, Member(name, value))

\* std::function<bool(const T&)> given to as_vector: the default and a filter
Predicates == {"all", "nonzero"}

ApplyPredicate(func, T, x) == func = "all" \/ x # ZeroOf(T)

\* get_vector that skips the elements get<T> refuses and still reports success
get_vector_skip(es, T, res) ==
    LET good == SelectSeq(es, LAMBDA e : get(e, T).has)
    IN  [has |-> TRUE, vec |-> res \o [i \in DOMAIN good |-> get(good[i], T).val]]

\* as_vector that skips the elements get<T> refuses
RECURSIVE as_vector_skip(_, _, _)
as_vector_skip(es, T, func) ==
    IF es = <<>> THEN {<<>>}
    ELSE {(IF get(Head(es), T).has /\ ApplyPredicate(func, T, x) THEN <<x>> ELSE <<>>) \o rest :
            x \in as(Head(es), T), rest \in as_vector_skip(Tail(es), T, func)}

\* ArrayRef::get_vector<T>: the loop over the elements left, res built so far
RECURSIVE get_vector(_, _, _)
get_vector(es, T, res) ==
    IF es = <<>> THEN [has |-> TRUE, vec |-> res]
    ELSE IF get(Head(es), T).has
         THEN get_vector(Tail(es), T, Append(res, get(Head(es), T).val))
         ELSE [has |-> FALSE, vec |-> <<>>]

\* ArrayRef::as_vector<T>(func): the vectors the call can return
RECURSIVE as_vector(_, _, _)
as_vector(es, T, func) ==
    IF es = <<>> THEN {<<>>}
    ELSE {(IF ApplyPredicate(func, T, x) THEN <<x>> ELSE <<>>) \o rest :
            x \in as(Head(es), T), rest \in as_vector(Tail(es), T, func)}


(***************************************************************************)
(* The inputs the operations are given.                                    *)
(***************************************************************************)
\* the decimal text of a sequence of digits
Digits(ds) == [i \in DOMAIN ds |-> 48 + ds[i]]

\* NUL, ' ', '+', '-', '1', 'x'
Alphabet == {0, 32, 43, 45, 49, 120}

RECURSIVE TextsUpTo(_)
TextsUpTo(n) ==
    IF n = 0 THEN {<<>>}
    ELSE TextsUpTo(n - 1) \cup
         {Append(t, c) : t \in {u \in TextsUpTo(n - 1) : Len(u) = n - 1}, c \in Alphabet}

\* texts at the ranges' edges, and the bool words
EdgeTexts ==
    {StrTrue, StrFalse, <<84, 82, 85, 69>>,
     <<48>>, <<45, 48>>, Digits(<<1, 2, 7>>), Digits(<<1, 2, 8>>),
     <<45>> \o Digits(<<1, 2, 8>>), <<45>> \o Digits(<<1, 2, 9>>),
     Digits(<<2, 5, 5>>), Digits(<<2, 5, 6>>), Digits(<<1, 0, 0, 0>>),
     Digits(<<3, 2, 7, 6, 8>>), Digits(<<6, 5, 5, 3, 6>>),
     Digits(<<2, 1, 4, 7, 4, 8, 3, 6, 4, 7>>), Digits(<<2, 1, 4, 7, 4, 8, 3, 6, 4, 8>>),
     Digits(<<4, 2, 9, 4, 9, 6, 7, 2, 9, 6>>),
     Digits(<<9, 2, 2, 3, 3, 7, 2, 0, 3, 6, 8, 5, 4, 7, 7, 5, 8, 0, 7>>),
     Digits(<<9, 2, 2, 3, 3, 7, 2, 0, 3, 6, 8, 5, 4, 7, 7, 5, 8, 0, 8>>),
     <<45>> \o Digits(<<9, 2, 2, 3, 3, 7, 2, 0, 3, 6, 8, 5, 4, 7, 7, 5, 8, 0, 8>>),
     <<45>> \o Digits(<<9, 2, 2, 3, 3, 7, 2, 0, 3, 6, 8, 5, 4, 7, 7, 5, 8, 0, 9>>),
     Digits(<<1, 8, 4, 4, 6, 7, 4, 4, 0, 7, 3, 7, 0, 9, 5, 5, 1, 6, 1, 5>>),
     Digits(<<1, 8, 4, 4, 6, 7, 4, 4, 0, 7, 3, 7, 0, 9, 5, 5, 1, 6, 1, 6>>),
     Digits(<<1, 2>>) \o <<0, 120>>, Digits(<<1, 2>>) \o <<120>>}

Texts == TextsUpTo(MaxStrLen) \cup EdgeTexts

\* integers at the edges of the 8, 16, 32 and 64 bit ranges
EdgeNums ==
    {NumOf(n) : n \in {-32769, -32768, -129, -128, -1, 0, 1, 100, 127, 128, 255,
                       256, 1000, 32767, 32768, 65535, 65536, 2147483647}}
    \cup {MkNum(TRUE, Pow2Mag(31)), MkNum(TRUE, MagAdd(Pow2Mag(31), MagOfNat(1))),
          MkNum(FALSE, Pow2Mag(31)), MaxOf(32, FALSE), MkNum(FALSE, Pow2Mag(32)),
          MaxOf(64, TRUE), MinOf(64, TRUE), MkNum(FALSE, Pow2Mag(63)), MaxOf(64, FALSE)}

\* 0.0, +-0.5, 1.5, 100.0, 127.5, 128.0, -128.5, 1000.5, -1.0 and 2^64
EdgeDoubles ==
    {HalvesOf(h) : h \in {0, 1, -1, 3, 200, 255, 256, -257, 2001, -2}}
    \cup {[num |-> MkNum(FALSE, Pow2Mag(64)), half |-> FALSE]}

\* the nodes the accessors are applied to
ConvNodes ==
    {NullNode, BoolNode(TRUE), BoolNode(FALSE)}
    \cup {IntNode(n) : n \in EdgeNums}
    \cup {DoubleNode(d) : d \in EdgeDoubles}
    \cup {StringNode(t) : t \in Texts}
    \cup {ArrayNode(<<>>), ArrayNode(<<IntNode(NumOf(1))>>),
          ObjectNode(<<>>), ObjectNode(<<Member(<<97>>, IntNode(NumOf(1)))>>)}

\* scalars stored as array elements: 1, 1000, "x", "3"
ElemVals ==
    {IntNode(NumOf(1)), IntNode(NumOf(1000)), StringNode(<<120>>), StringNode(<<51>>)}

\* scalars stored as member values: 1000
MemberVals == {IntNode(NumOf(1000))}

\* value types asked of get_value
GetValueTypes == {"int8", "int32", "string"}

\* the default value handed to get_value<T>(name, defval): 7, true, "d"
DefaultOf(T) ==
    CASE T = "bool" -> VBool(TRUE)
      [] T = "string" -> VStr(<<100>>)
      [] OTHER -> VInt(NumOf(7))

\* bools and numbers assigned to the root: 1, 1000, true, 1.5
AssignVals ==
    {x \in ElemVals : ~IsString(x)} \cup {BoolNode(TRUE), DoubleNode(HalvesOf(3))}

\* member names: "a" and "a\0b"
Keys == {<<97>>, <<97, 0, 98>>}

\* element types asked of get_vector / as_vector
VecTypes == {"int8", "int32", "bool", "string"}


(***************************************************************************)
(* State.  doc is the root node of a Value; the operations below are       *)
(* called on the ValueRef of the root, or on the ArrayRef / ObjectRef      *)
(* constructed over it.  The other variables record the last call: its     *)
(* name, the root before it, its arguments, what it returned and whether   *)
(* it threw std::runtime_error.                                            *)
(***************************************************************************)
VARIABLES doc, pre, op, arg, ret, err, other, loaderr

vars == <<doc, pre, op, arg, ret, err, other, loaderr>>

\* loaderr: the parse result the Document of doc keeps, as GetParseError_En
\* and GetErrorOffset give it
NoLoadError == [code |-> "No error.", offset |-> 0]

\* other: a second Value, once it is constructed.  tree names the document
\* its root reference points into, which is what operator== compares: 1 is
\* the document of doc, 2 a document of its own, whose root is node
NoOther == [live |-> FALSE, tree |-> 0, node |-> NullNode]

\* T: the template type; key, idx, last: the name and positions given; val:
\* the node value given; func: the predicate; def: the default value; seq:
\* the native container or the text given; n: the size_t given; keys: the
\* list of names given; str_copy: the copy flag given
NoArg ==
    [T |-> "", key |-> <<>>, idx |-> 0, last |-> 0, val |-> NullNode, func |-> "",
     def |-> VNone, seq |-> <<>>, text |-> <<>>, found |-> TRUE, n |-> NumZero,
     keys |-> <<>>, str_copy |-> TRUE]

\* has: a value / engaged optional came back; val: the scalar; vec: the
\* vector; ref: position of the element or member the returned ValueRef
\* refers to (0: none)
NoRet == [has |-> FALSE, val |-> VNone, vec |-> <<>>, ref |-> 0]

Returned(r) == [NoRet EXCEPT !.has = r.has, !.val = r.val]

RefTo(i) == [NoRet EXCEPT !.has = TRUE, !.ref = i]

\* the call threw: nothing comes back
Throw ==
    /\ ret' = NoRet
    /\ err' = TRUE

\* Value(): a fresh document, whose root is Null
Init ==
    /\ doc = NullNode
    /\ pre = NullNode
    /\ op = "init"
    /\ arg = NoArg
    /\ ret = NoRet
    /\ err = FALSE
    /\ other = NoOther
    /\ loaderr = NoLoadError

\* ValueRef::operator=(T value), T a bool or a number
Assign(v) ==
    /\ op' = "assign"
    /\ pre' = doc
    /\ loaderr' = loaderr
    /\ other' = other
    /\ arg' = [NoArg EXCEPT !.val = v]
    /\ doc' = v
    /\ ret' = NoRet
    /\ err' = FALSE

\* ValueRef::operator=(const std::string& s)
AssignString(s) ==
    /\ op' = "assign_string"
    /\ pre' = doc
    /\ loaderr' = loaderr
    /\ other' = other
    /\ arg' = [NoArg EXCEPT !.val = StringNode(s)]
    /\ doc' = StringNode(s)
    /\ ret' = NoRet
    /\ err' = FALSE

\* ValueRef::set_null
SetNull ==
    /\ op' = "set_null"
    /\ pre' = doc
    /\ loaderr' = loaderr
    /\ other' = other
    /\ arg' = NoArg
    /\ doc' = NullNode
    /\ ret' = NoRet
    /\ err' = FALSE

\* ValueRef::set_array()
SetArray ==
    /\ op' = "set_array"
    /\ pre' = doc
    /\ loaderr' = loaderr
    /\ other' = other
    /\ arg' = NoArg
    /\ doc' = ArrayNode(<<>>)
    /\ ret' = NoRet
    /\ err' = FALSE

\* ValueRef::set_object()
SetObject ==
    /\ op' = "set_object"
    /\ pre' = doc
    /\ loaderr' = loaderr
    /\ other' = other
    /\ arg' = NoArg
    /\ doc' = ObjectNode(<<>>)
    /\ ret' = NoRet
    /\ err' = FALSE

\* ArrayRef(root).push_back(T&& value): dummy = value; PushBack(temp)
ArrayPushBack(v) ==
    /\ op' = "array_push_back"
    /\ pre' = doc
    /\ loaderr' = loaderr
    /\ other' = other
    /\ arg' = [NoArg EXCEPT !.val = v]
    /\ IF ~ArrayRef_ctor(doc).ok
       THEN doc' = ArrayRef_ctor(doc).node /\ Throw
       ELSE /\ Len(ArrayRef_ctor(doc).node.elems) < MaxArr
            /\ doc' = ArrayNode(Append(ArrayRef_ctor(doc).node.elems, v))
            /\ ret' = NoRet
            /\ err' = FALSE

\* ArrayRef(root).push_back(): appends a Null, returns a reference to it
ArrayPushBackNull ==
    /\ op' = "array_push_back_null"
    /\ pre' = doc
    /\ loaderr' = loaderr
    /\ other' = other
    /\ arg' = NoArg
    /\ IF ~ArrayRef_ctor(doc).ok
       THEN doc' = ArrayRef_ctor(doc).node /\ Throw
       ELSE /\ Len(ArrayRef_ctor(doc).node.elems) < MaxArr
            /\ doc' = ArrayNode(Append(ArrayRef_ctor(doc).node.elems, NullNode))
            /\ ret' = RefTo(Len(ArrayRef_ctor(doc).node.elems) + 1)
            /\ err' = FALSE

\* operator[] whose bound test is off by one
ArrayRef_index_offbyone(v, index) ==
    IF index > Len(v.elems) THEN [ok |-> FALSE, ref |-> 0]
    ELSE [ok |-> TRUE, ref |-> index + 1]

\* ArrayRef::operator[](size_t index), on the ArrayRef v
ArrayRef_index(v, index) ==
    IF index >= Len(v.elems) THEN [ok |-> FALSE, ref |-> 0]
    ELSE [ok |-> TRUE, ref |-> index + 1]

\* ValueRef::operator[](size_t idx)
ValueRef_index(v, idx) ==
    IF ~IsArray(v) THEN [ok |-> FALSE, ref |-> 0]
    ELSE IF idx >= Len(v.elems) THEN [ok |-> FALSE, ref |-> 0]
    ELSE ArrayRef_index(ArrayRef_ctor(v).node, idx)

\* root[idx]
ValueIndex(idx) ==
    /\ op' = "value_index"
    /\ pre' = doc
    /\ loaderr' = loaderr
    /\ other' = other
    /\ arg' = [NoArg EXCEPT !.idx = idx]
    /\ doc' = doc
    /\ IF ValueRef_index(doc, idx).ok
       THEN ret' = RefTo(ValueRef_index(doc, idx).ref) /\ err' = FALSE
       ELSE Throw

\* ArrayRef(root)[index]
ArrayIndex(index) ==
    /\ op' = "array_index"
    /\ pre' = doc
    /\ loaderr' = loaderr
    /\ other' = other
    /\ arg' = [NoArg EXCEPT !.idx = index]
    /\ doc' = ArrayRef_ctor(doc).node
    /\ IF ArrayRef_ctor(doc).ok /\ ArrayRef_index(ArrayRef_ctor(doc).node, index).ok
       THEN /\ ret' = RefTo(ArrayRef_index(ArrayRef_ctor(doc).node, index).ref)
            /\ err' = FALSE
       ELSE Throw

\* ArrayRef(root).get_vector<T>()
GetVector(T) ==
    /\ op' = "get_vector"
    /\ pre' = doc
    /\ loaderr' = loaderr
    /\ other' = other
    /\ arg' = [NoArg EXCEPT !.T = T]
    /\ doc' = ArrayRef_ctor(doc).node
    /\ IF ArrayRef_ctor(doc).ok
       THEN /\ ret' = [NoRet EXCEPT
                          !.has = get_vector(ArrayRef_ctor(doc).node.elems, T, <<>>).has,
                          !.vec = get_vector(ArrayRef_ctor(doc).node.elems, T, <<>>).vec]
            /\ err' = FALSE
       ELSE Throw

\* ArrayRef(root).as_vector<T>(func)
AsVector(T, func) ==
    /\ op' = "as_vector"
    /\ pre' = doc
    /\ loaderr' = loaderr
    /\ other' = other
    /\ arg' = [NoArg EXCEPT !.T = T, !.func = func]
    /\ doc' = ArrayRef_ctor(doc).node
    /\ IF ArrayRef_ctor(doc).ok
       THEN /\ \E r \in as_vector(ArrayRef_ctor(doc).node.elems, T, func) :
                  ret' = [NoRet EXCEPT !.has = TRUE, !.vec = r]
            /\ err' = FALSE
       ELSE Throw


\* ObjectRef::operator[](const std::string& name), on the Object v:
\* the node afterwards and the position of the member referred to
ObjectRef_index(v, name) ==
    IF FindMember(v.members, name) = 0
    THEN [node |-> ObjectNode(AddMember(v.members, name, NullNode)),
          ref  |-> Len(v.members) + 1]
    ELSE [node |-> v, ref |-> FindMember(v.members, name)]

\* ObjectRef::operator[](const char* name): the key is the C string
ObjectRef_index_cstr(v, name) == ObjectRef_index(v, CStr(name))

\* ValueRef::operator[](const std::string& name): operator[](name.c_str())
ValueRef_index_key(v, name) ==
    IF IsNull(v)
    THEN [ok |-> TRUE] @@ ObjectRef_index_cstr(ObjectRef_ctor(ObjectNode(<<>>)).node, name)
    ELSE IF ~IsObject(v) THEN [ok |-> FALSE, node |-> v, ref |-> 0]
    ELSE [ok |-> TRUE] @@ ObjectRef_index_cstr(ObjectRef_ctor(v).node, name)

\* ObjectRef::find(const std::string& name): position of the member, 0 for empty
ObjectRef_find(v, name) == FindMember(v.members, name)

\* insert that replaces the value of a member already named name
ObjectRef_insert_overwrite(v, name, value) ==
    IF FindMember(v.members, name) = 0
    THEN ObjectNode(AddMember(v.members, name, value))
    ELSE ObjectNode([v.members EXCEPT ![FindMember(v.members, name)].value = value])

\* ObjectRef::insert(const std::string& name, T&& value)
ObjectRef_insert(v, name, value) == ObjectNode(AddMember(v.members, name, value))

\* ObjectRef::insert(const std::string& name): the member is Null
ObjectRef_insert_null(v, name) == ObjectNode(AddMember(v.members, name, NullNode))

\* ObjectRef(root)[name]
ObjectIndex(name) ==
    /\ op' = "object_index"
    /\ pre' = doc
    /\ loaderr' = loaderr
    /\ other' = other
    /\ arg' = [NoArg EXCEPT !.key = name]
    /\ IF ~ObjectRef_ctor(doc).ok
       THEN doc' = doc /\ Throw
       ELSE /\ Len(ObjectRef_index(ObjectRef_ctor(doc).node, name).node.members) <= MaxMembers
            /\ doc' = ObjectRef_index(ObjectRef_ctor(doc).node, name).node
            /\ ret' = RefTo(ObjectRef_index(ObjectRef_ctor(doc).node, name).ref)
            /\ err' = FALSE

\* root[name], name a std::string
ValueIndexKey(name) ==
    /\ op' = "value_index_key"
    /\ pre' = doc
    /\ loaderr' = loaderr
    /\ other' = other
    /\ arg' = [NoArg EXCEPT !.key = name]
    /\ IF ~ValueRef_index_key(doc, name).ok
       THEN doc' = doc /\ Throw
       ELSE /\ Len(ValueRef_index_key(doc, name).node.members) <= MaxMembers
            /\ doc' = ValueRef_index_key(doc, name).node
            /\ ret' = RefTo(ValueRef_index_key(doc, name).ref)
            /\ err' = FALSE

\* ObjectRef(root).find(name)
ObjectFind(name) ==
    /\ op' = "object_find"
    /\ pre' = doc
    /\ loaderr' = loaderr
    /\ other' = other
    /\ arg' = [NoArg EXCEPT !.key = name]
    /\ doc' = ObjectRef_ctor(doc).node
    /\ IF ~ObjectRef_ctor(doc).ok
       THEN Throw
       ELSE /\ ret' = [NoRet EXCEPT
                          !.has = ObjectRef_find(ObjectRef_ctor(doc).node, name) # 0,
                          !.ref = ObjectRef_find(ObjectRef_ctor(doc).node, name)]
            /\ err' = FALSE

\* ObjectRef(root).insert(name, value)
ObjectInsert(name, value) ==
    /\ op' = "object_insert"
    /\ pre' = doc
    /\ loaderr' = loaderr
    /\ other' = other
    /\ arg' = [NoArg EXCEPT !.key = name, !.val = value]
    /\ IF ~ObjectRef_ctor(doc).ok
       THEN doc' = doc /\ Throw
       ELSE /\ Len(ObjectRef_ctor(doc).node.members) < MaxMembers
            /\ doc' = ObjectRef_insert(ObjectRef_ctor(doc).node, name, value)
            /\ ret' = NoRet
            /\ err' = FALSE

\* ObjectRef(root).insert(name)
ObjectInsertNull(name) ==
    /\ op' = "object_insert_null"
    /\ pre' = doc
    /\ loaderr' = loaderr
    /\ other' = other
    /\ arg' = [NoArg EXCEPT !.key = name]
    /\ IF ~ObjectRef_ctor(doc).ok
       THEN doc' = doc /\ Throw
       ELSE /\ Len(ObjectRef_ctor(doc).node.members) < MaxMembers
            /\ doc' = ObjectRef_insert_null(ObjectRef_ctor(doc).node, name)
            /\ ret' = RefTo(Len(ObjectRef_ctor(doc).node.members) + 1)
            /\ err' = FALSE

\* ObjectRef::count(const std::string& name)
ObjectRef_count(v, name) == IF FindMember(v.members, name) # 0 THEN 1 ELSE 0

\* ObjectRef::get_value<T>(const std::string& name)
ObjectRef_get_value(v, name, T) ==
    IF T = "string"
    THEN IF FindMember(v.members, name) # 0
            /\ IsString(v.members[FindMember(v.members, name)].value)
         THEN Some(VStr(v.members[FindMember(v.members, name)].value.str))
         ELSE None
    ELSE IF FindMember(v.members, name) # 0
         THEN get(v.members[FindMember(v.members, name)].value, T)
         ELSE None

\* get_value with a default that converts permissively
ObjectRef_get_value_default_as(v, name, T, defval) ==
    IF FindMember(v.members, name) = 0 THEN defval
    ELSE CHOOSE x \in as(v.members[FindMember(v.members, name)].value, T) : TRUE

\* ObjectRef::get_value<T>(const std::string& name, const T& defval)
ObjectRef_get_value_default(v, name, T, defval) ==
    IF ~ObjectRef_get_value(v, name, T).has THEN defval
    ELSE ObjectRef_get_value(v, name, T).val

\* rapidjson EraseMember(first, last): the members from first up to, not
\* including, last go; the ones behind move up in their order
EraseMember(ms, first, last) == SubSeq(ms, 1, first - 1) \o SubSeq(ms, last, Len(ms))

\* erase that removes every member named name
ObjectRef_erase_all(v, name) ==
    [node |-> ObjectNode(SelectSeq(v.members, LAMBDA m : m.name # name)),
     ref  |-> Len(v.members) + 1]

\* ObjectRef::erase(const std::string& name): ref is where the returned
\* iterator stands (Len + 1 is end())
ObjectRef_erase(v, name) ==
    IF FindMember(v.members, name) # 0
    THEN [node |-> ObjectNode(EraseMember(v.members, FindMember(v.members, name),
                                          FindMember(v.members, name) + 1)),
          ref  |-> FindMember(v.members, name)]
    ELSE [node |-> v, ref |-> Len(v.members) + 1]

\* erase by position that fills the hole with the last member
ObjectRef_erase_swap(v, pos) ==
    [node |-> ObjectNode(IF pos = Len(v.members)
                         THEN SubSeq(v.members, 1, Len(v.members) - 1)
                         ELSE SubSeq([v.members EXCEPT ![pos] = v.members[Len(v.members)]],
                                     1, Len(v.members) - 1)),
     ref  |-> pos]

\* ObjectRef::erase(const MemberIterator& pos)
ObjectRef_erase_pos(v, pos) ==
    [node |-> ObjectNode(EraseMember(v.members, pos, pos + 1)), ref |-> pos]

\* ObjectRef::erase(const MemberIterator& first, const MemberIterator& last)
ObjectRef_erase_range(v, first, last) ==
    [node |-> ObjectNode(EraseMember(v.members, first, last)), ref |-> first]

\* for (it = begin(); it != end(); ++it): the members visited, it at position i
RECURSIVE Iterate(_, _)
Iterate(ms, i) == IF i > Len(ms) THEN <<>> ELSE <<ms[i]>> \o Iterate(ms, i + 1)

\* ObjectRef(root).count(name)
ObjectCount(name) ==
    /\ op' = "object_count"
    /\ pre' = doc
    /\ loaderr' = loaderr
    /\ other' = other
    /\ arg' = [NoArg EXCEPT !.key = name]
    /\ doc' = ObjectRef_ctor(doc).node
    /\ IF ~ObjectRef_ctor(doc).ok
       THEN Throw
       ELSE /\ ret' = Returned(Some(VInt(NumOf(ObjectRef_count(ObjectRef_ctor(doc).node, name)))))
            /\ err' = FALSE

\* ObjectRef(root).get_value<T>(name)
ObjectGetValue(T, name) ==
    /\ op' = "object_get_value"
    /\ pre' = doc
    /\ loaderr' = loaderr
    /\ other' = other
    /\ arg' = [NoArg EXCEPT !.T = T, !.key = name]
    /\ doc' = ObjectRef_ctor(doc).node
    /\ IF ~ObjectRef_ctor(doc).ok
       THEN Throw
       ELSE /\ ret' = Returned(ObjectRef_get_value(ObjectRef_ctor(doc).node, name, T))
            /\ err' = FALSE

\* ObjectRef(root).get_value<T>(name, defval)
ObjectGetValueDefault(T, name, defval) ==
    /\ op' = "object_get_value_default"
    /\ pre' = doc
    /\ loaderr' = loaderr
    /\ other' = other
    /\ arg' = [NoArg EXCEPT !.T = T, !.key = name, !.def = defval]
    /\ doc' = ObjectRef_ctor(doc).node
    /\ IF ~ObjectRef_ctor(doc).ok
       THEN Throw
       ELSE /\ ret' = Returned(Some(ObjectRef_get_value_default(
                                        ObjectRef_ctor(doc).node, name, T, defval)))
            /\ err' = FALSE

\* ObjectRef(root).erase(name)
ObjectErase(name) ==
    /\ op' = "object_erase"
    /\ pre' = doc
    /\ loaderr' = loaderr
    /\ other' = other
    /\ arg' = [NoArg EXCEPT !.key = name]
    /\ IF ~ObjectRef_ctor(doc).ok
       THEN doc' = doc /\ Throw
       ELSE /\ doc' = ObjectRef_erase(ObjectRef_ctor(doc).node, name).node
            /\ ret' = RefTo(ObjectRef_erase(ObjectRef_ctor(doc).node, name).ref)
            /\ err' = FALSE

\* ObjectRef(root).erase(pos), pos an iterator at a member of the object
ObjectErasePos(pos) ==
    /\ IsObject(doc)
    /\ pos \in 1..Len(doc.members)
    /\ op' = "object_erase_pos"
    /\ pre' = doc
    /\ loaderr' = loaderr
    /\ other' = other
    /\ arg' = [NoArg EXCEPT !.idx = pos]
    /\ doc' = ObjectRef_erase_pos(ObjectRef_ctor(doc).node, pos).node
    /\ ret' = RefTo(ObjectRef_erase_pos(ObjectRef_ctor(doc).node, pos).ref)
    /\ err' = FALSE

\* ObjectRef(root).erase(first, last), begin() <= first <= last <= end()
ObjectEraseRange(first, last) ==
    /\ IsObject(doc)
    /\ first \in 1..(Len(doc.members) + 1)
    /\ last \in first..(Len(doc.members) + 1)
    /\ op' = "object_erase_range"
    /\ pre' = doc
    /\ loaderr' = loaderr
    /\ other' = other
    /\ arg' = [NoArg EXCEPT !.idx = first, !.last = last]
    /\ doc' = ObjectRef_erase_range(ObjectRef_ctor(doc).node, first, last).node
    /\ ret' = RefTo(ObjectRef_erase_range(ObjectRef_ctor(doc).node, first, last).ref)
    /\ err' = FALSE

\* for (auto it = obj.begin(); it != obj.end(); ++it), obj = ObjectRef(root)
ObjectIterate ==
    /\ op' = "object_iterate"
    /\ pre' = doc
    /\ loaderr' = loaderr
    /\ other' = other
    /\ arg' = NoArg
    /\ doc' = ObjectRef_ctor(doc).node
    /\ IF ~ObjectRef_ctor(doc).ok
       THEN Throw
       ELSE /\ ret' = [NoRet EXCEPT !.has = TRUE,
                                    !.vec = Iterate(ObjectRef_ctor(doc).node.members, 1)]
            /\ err' = FALSE

\* it->value = v, it an iterator at the member at position pos
MemberAssign(pos, v) ==
    /\ IsObject(doc)
    /\ pos \in 1..Len(doc.members)
    /\ op' = "member_assign"
    /\ pre' = doc
    /\ loaderr' = loaderr
    /\ other' = other
    /\ arg' = [NoArg EXCEPT !.idx = pos, !.val = v]
    /\ doc' = ObjectNode([doc.members EXCEPT ![pos].value = v])
    /\ ret' = NoRet
    /\ err' = FALSE

\* root.get_array(): ArrayRef(*this)
GetArray ==
    /\ op' = "get_array"
    /\ pre' = doc
    /\ loaderr' = loaderr
    /\ other' = other
    /\ arg' = NoArg
    /\ doc' = ArrayRef_ctor(doc).node
    /\ IF ArrayRef_ctor(doc).ok
       THEN ret' = [NoRet EXCEPT !.has = TRUE] /\ err' = FALSE
       ELSE Throw

\* root.get_object(): ObjectRef(*this)
GetObject ==
    /\ op' = "get_object"
    /\ pre' = doc
    /\ loaderr' = loaderr
    /\ other' = other
    /\ arg' = NoArg
    /\ doc' = ObjectRef_ctor(doc).node
    /\ IF ObjectRef_ctor(doc).ok
       THEN ret' = [NoRet EXCEPT !.has = TRUE] /\ err' = FALSE
       ELSE Throw

Next ==
    \/ \E v \in AssignVals : Assign(v)
    \/ \E v \in {x \in ElemVals : IsString(x)} : AssignString(v.str)
    \/ SetNull
    \/ SetArray
    \/ SetObject
    \/ \E v \in ElemVals : ArrayPushBack(v)
    \/ ArrayPushBackNull
    \/ \E i \in 0..(MaxArr + 1) : ValueIndex(i)
    \/ \E i \in 0..(MaxArr + 1) : ArrayIndex(i)
    \/ \E T \in VecTypes : GetVector(T)
    \/ \E T \in VecTypes, f \in Predicates : AsVector(T, f)
    \/ \E k \in Keys : ObjectIndex(k)
    \/ \E k \in Keys : ValueIndexKey(k)
    \/ \E k \in Keys : ObjectFind(k)
    \/ \E k \in Keys, v \in MemberVals : ObjectInsert(k, v)
    \/ \E k \in Keys : ObjectInsertNull(k)
    \/ \E k \in Keys : ObjectCount(k)
    \/ \E T \in GetValueTypes, k \in Keys : ObjectGetValue(T, k)
    \/ \E T \in GetValueTypes, k \in Keys : ObjectGetValueDefault(T, k, DefaultOf(T))
    \/ \E k \in Keys : ObjectErase(k)
    \/ \E i \in 1..MaxMembers : ObjectErasePos(i)
    \/ \E i \in 1..(MaxMembers + 1), j \in 1..(MaxMembers + 1) : ObjectEraseRange(i, j)
    \/ ObjectIterate
    \/ GetArray
    \/ GetObject
    \/ \E i \in 1..MaxMembers, v \in MemberVals \cup {NullNode} : MemberAssign(i, v)

Spec == Init /\ [][Next]_vars

(***************************************************************************)
(* Assignment of native containers: the root is drawn at the start, then   *)
(* sequences of int and string-keyed maps of int are assigned to it and    *)
(* read back.                                                              *)
(***************************************************************************)
\* the ints held by the native containers: 1, 1000, INT_MIN
SeqVals == {NumOf(1), NumOf(1000), MinOf(32, TRUE)}

RECURSIVE SeqsUpTo(_, _)
SeqsUpTo(S, n) ==
    IF n = 0 THEN {<<>>}
    ELSE SeqsUpTo(S, n - 1) \cup {Append(q, x) : q \in SeqsUpTo(S, n - 1), x \in S}

\* std::vector<int> values
NativeSeqs == SeqsUpTo(SeqVals, MaxArr)

\* keys of the native maps: "a", "b", "a\0b"
MapKeys == Keys \cup {<<98>>}

\* string-keyed maps of int, as the (key, value) pairs in the container's own
\* iteration order; a key occurs once
NativeMaps ==
    {m \in SeqsUpTo({[first |-> k, second |-> x] : k \in MapKeys, x \in {NumOf(1), NumOf(1000)}},
                    MaxMembers) :
        \A i, j \in DOMAIN m : m[i].first = m[j].first => i = j}

\* the roots assigned to
PriorNodes ==
    {NullNode, BoolNode(TRUE), IntNode(NumOf(1)), StringNode(<<120>>),
     ArrayNode(<<StringNode(<<120>>)>>), ObjectNode(<<Member(<<98>>, NullNode)>>)}

\* set_container that keeps the elements of an Array already there
RECURSIVE set_container_append(_, _)
set_container_append(v, array) ==
    IF array = <<>> THEN (IF IsArray(v) THEN v ELSE ArrayNode(<<>>))
    ELSE ArrayNode(Append(set_container_append(v, SubSeq(array, 1, Len(array) - 1)).elems,
                          IntNode(array[Len(array)])))

\* set_container that adds the pairs in key order, not in iteration order
RECURSIVE set_container_map_sorted(_, _)
set_container_map_sorted(v, map) ==
    IF map = <<>> THEN ObjectNode(<<>>)
    ELSE LET big == CHOOSE i \in DOMAIN map :
                        \A j \in DOMAIN map : Len(map[j].first) < Len(map[i].first)
                                              \/ (Len(map[j].first) = Len(map[i].first)
                                                  /\ map[j].first[1] <= map[i].first[1])
         IN  ObjectNode(Append(
                 set_container_map_sorted(v, SubSeq(map, 1, big - 1)
                                             \o SubSeq(map, big + 1, Len(map))).members,
                 Member(map[big].first, IntNode(map[big].second))))

\* ValueRef::set_container(const Container<T>& array), T a number, on the
\* node v: SetArray(), then PushBack(Value(k)) for each k
RECURSIVE set_container(_, _)
set_container(v, array) ==
    IF array = <<>> THEN ArrayNode(<<>>)
    ELSE ArrayNode(Append(set_container(v, SubSeq(array, 1, Len(array) - 1)).elems,
                          IntNode(array[Len(array)])))

\* ValueRef::set_container(const Container<std::string, Value>& map) on the
\* node v: SetObject(), then AddMember(name, Value(k.second)) for each pair
RECURSIVE set_container_map(_, _)
set_container_map(v, map) ==
    IF map = <<>> THEN ObjectNode(<<>>)
    ELSE ObjectNode(AddMember(set_container_map(v, SubSeq(map, 1, Len(map) - 1)).members,
                              map[Len(map)].first, IntNode(map[Len(map)].second)))

InitAssign ==
    /\ doc \in PriorNodes
    /\ pre = doc
    /\ op = "init"
    /\ arg = NoArg
    /\ ret = NoRet
    /\ err = FALSE
    /\ other = NoOther
    /\ loaderr = NoLoadError

\* root = array, array a std::vector<int>
AssignSeq(array) ==
    /\ op' = "assign_seq"
    /\ pre' = doc
    /\ loaderr' = loaderr
    /\ other' = other
    /\ arg' = [NoArg EXCEPT !.seq = array]
    /\ doc' = set_container(doc, array)
    /\ ret' = NoRet
    /\ err' = FALSE

\* root = map, map a string-keyed map of int
AssignMap(map) ==
    /\ op' = "assign_map"
    /\ pre' = doc
    /\ loaderr' = loaderr
    /\ other' = other
    /\ arg' = [NoArg EXCEPT !.seq = map]
    /\ doc' = set_container_map(doc, map)
    /\ ret' = NoRet
    /\ err' = FALSE

NextAssign ==
    \/ \E array \in NativeSeqs : AssignSeq(array)
    \/ \E map \in NativeMaps : AssignMap(map)
    \/ GetVector("int32")
    \/ ObjectIterate

SpecAssign == InitAssign /\ [][NextAssign]_vars

(***************************************************************************)
(* Two Values: other is constructed or assigned from the root of doc, and  *)
(* both are mutated afterwards.                                            *)
(***************************************************************************)
\* the source trees copied
CopyNodes ==
    {NullNode, IntNode(NumOf(1)), StringNode(<<120>>),
     ArrayNode(<<IntNode(NumOf(1))>>),
     ObjectNode(<<Member(<<97>>, ArrayNode(<<IntNode(NumOf(1000))>>))>>)}

\* rapidjson CopyFrom(rhs, allocator): a copy of the whole subtree of rhs,
\* allocated by the destination's allocator
CopyFrom(rhs) == rhs

\* a copy constructor that binds the new Value to the source's root
Value_copy_alias(v) == [live |-> TRUE, tree |-> 1, node |-> NullNode]

\* Value(const ValueRef& other) : Value(): a fresh Document, then
\* value_.CopyFrom(other.get_rvalue(), alloc_)
Value_copy(v) == [live |-> TRUE, tree |-> 2, node |-> CopyFrom(v)]

\* the tree the root reference of other designates
OtherTree == IF other.tree = 1 THEN doc ELSE other.node

\* the root of other is set to v
OtherWrite(v) ==
    IF other.tree = 1
    THEN doc' = v /\ other' = other
    ELSE doc' = doc /\ other' = [other EXCEPT !.node = v]

InitCopy ==
    /\ doc \in CopyNodes
    /\ pre = doc
    /\ op = "init"
    /\ arg = NoArg
    /\ ret = NoRet
    /\ err = FALSE
    /\ other = NoOther
    /\ loaderr = NoLoadError

\* Value other(root): copy construction from the ValueRef of the root of doc
ValueCopy ==
    /\ op' = "value_copy"
    /\ pre' = doc
    /\ loaderr' = loaderr
    /\ arg' = NoArg
    /\ doc' = doc
    /\ other' = Value_copy(doc)
    /\ ret' = NoRet
    /\ err' = FALSE

\* other = root: ValueRef::operator=(const ValueRef&), CopyFrom unless this == &other
ValueAssign ==
    /\ other.live
    /\ op' = "value_assign"
    /\ pre' = doc
    /\ loaderr' = loaderr
    /\ arg' = NoArg
    /\ IF other.tree = 1 THEN doc' = doc /\ other' = other
       ELSE OtherWrite(CopyFrom(doc))
    /\ ret' = NoRet
    /\ err' = FALSE

\* root == other: ValueRef::operator==, the addresses of the two nodes
RootEquals ==
    /\ other.live
    /\ op' = "root_equals"
    /\ pre' = doc
    /\ loaderr' = loaderr
    /\ arg' = NoArg
    /\ doc' = doc
    /\ other' = other
    /\ ret' = Returned(Some(VBool(other.tree = 1)))
    /\ err' = FALSE

\* other = v, v a bool or a number
OtherAssign(v) ==
    /\ other.live
    /\ op' = "other_assign"
    /\ pre' = doc
    /\ loaderr' = loaderr
    /\ arg' = [NoArg EXCEPT !.val = v]
    /\ OtherWrite(v)
    /\ ret' = NoRet
    /\ err' = FALSE

\* ArrayRef(other).push_back(v)
OtherPushBack(v) ==
    /\ other.live
    /\ op' = "other_push_back"
    /\ pre' = doc
    /\ loaderr' = loaderr
    /\ arg' = [NoArg EXCEPT !.val = v]
    /\ IF ~ArrayRef_ctor(OtherTree).ok
       THEN doc' = doc /\ other' = other /\ Throw
       ELSE /\ Len(ArrayRef_ctor(OtherTree).node.elems) < MaxArr
            /\ OtherWrite(ArrayNode(Append(ArrayRef_ctor(OtherTree).node.elems, v)))
            /\ ret' = NoRet
            /\ err' = FALSE

\* ObjectRef(other).insert(name, value)
OtherInsert(name, value) ==
    /\ other.live
    /\ op' = "other_insert"
    /\ pre' = doc
    /\ loaderr' = loaderr
    /\ arg' = [NoArg EXCEPT !.key = name, !.val = value]
    /\ IF ~ObjectRef_ctor(OtherTree).ok
       THEN doc' = doc /\ other' = other /\ Throw
       ELSE /\ Len(ObjectRef_ctor(OtherTree).node.members) < MaxMembers
            /\ OtherWrite(ObjectRef_insert(ObjectRef_ctor(OtherTree).node, name, value))
            /\ ret' = NoRet
            /\ err' = FALSE

NextCopy ==
    \/ ValueCopy
    \/ ValueAssign
    \/ RootEquals
    \/ \E v \in {IntNode(NumOf(1000))} : Assign(v)
    \/ \E v \in {IntNode(NumOf(1))} : ArrayPushBack(v)
    \/ \E v \in MemberVals : ObjectInsert(<<97>>, v)
    \/ \E v \in {IntNode(NumOf(1))} : OtherAssign(v)
    \/ \E v \in {IntNode(NumOf(1000))} : OtherPushBack(v)
    \/ \E v \in MemberVals : OtherInsert(<<97, 0, 98>>, v)

SpecCopy == InitCopy /\ [][NextCopy]_vars

(***************************************************************************)
(* Loading JSON text.  The rapidjson reader, for literals, unsigned        *)
(* integers, strings without escapes, arrays and objects.  A result is     *)
(* [ok, node, pos, code]: pos is the next byte to read, or where the error *)
(* is; the error offset is pos - 1.                                        *)
(***************************************************************************)
JsonOk(node, pos) == [ok |-> TRUE, node |-> node, pos |-> pos, code |-> "No error."]

JsonFail(code, pos) == [ok |-> FALSE, node |-> NullNode, pos |-> pos, code |-> code]

\* Peek(): the byte at i, NUL at the end of the text
JsonCh(t, i) == IF i <= Len(t) THEN t[i] ELSE 0

\* SkipWhitespace
JsonSkip(t, i) ==
    CHOOSE p \in i..(Len(t) + 1) :
        /\ \A j \in i..(p - 1) : t[j] \in {32, 9, 10, 13}
        /\ p <= Len(t) => t[p] \notin {32, 9, 10, 13}

\* how many bytes of lit the text holds from i on
JsonMatch(t, i, lit) ==
    CHOOSE k \in 0..Len(lit) :
        /\ \A j \in 1..k : JsonCh(t, i + j - 1) = lit[j]
        /\ k < Len(lit) => JsonCh(t, i + k) # lit[k + 1]

\* ParseNull / ParseTrue / ParseFalse
JsonLiteral(t, i, lit, node) ==
    IF JsonMatch(t, i, lit) = Len(lit) THEN JsonOk(node, i + Len(lit))
    ELSE JsonFail("Invalid value.", i + JsonMatch(t, i, lit))

\* ParseNumber, for the unsigned integers of the texts given (below 2^64)
JsonNumber(t, i) ==
    IF ~IsDigit(JsonCh(t, i)) THEN JsonFail("Invalid value.", i)
    ELSE IF JsonCh(t, i) = 48 THEN JsonOk(IntNode(NumZero), i + 1)
    ELSE JsonOk(IntNode(MkNum(FALSE, DigitsMag(t, i, SkipDigits(t, i)))), SkipDigits(t, i))

\* ParseString, the text at i being '"'
JsonString(t, i) ==
    IF \E j \in (i + 1)..Len(t) : t[j] = 34
    THEN JsonOk(StringNode(SubSeq(t, i + 1,
                    (CHOOSE j \in (i + 1)..Len(t) :
                        t[j] = 34 /\ \A k \in (i + 1)..(j - 1) : t[k] # 34) - 1)),
                (CHOOSE j \in (i + 1)..Len(t) :
                    t[j] = 34 /\ \A k \in (i + 1)..(j - 1) : t[k] # 34) + 1)
    ELSE JsonFail("Missing a closing quotation mark in string.", Len(t) + 1)

RECURSIVE JsonValue(_, _), JsonElems(_, _, _), JsonElemDone(_, _, _), JsonElemSep(_, _, _),
          JsonMembers(_, _, _), JsonColon(_, _, _), JsonMemberDone(_, _, _, _),
          JsonMemberSep(_, _, _)
\* ParseValue
JsonValue(t, i) ==
    CASE JsonCh(t, i) = 110 -> JsonLiteral(t, i, <<110, 117, 108, 108>>, NullNode)
      [] JsonCh(t, i) = 116 -> JsonLiteral(t, i, StrTrue, BoolNode(TRUE))
      [] JsonCh(t, i) = 102 -> JsonLiteral(t, i, StrFalse, BoolNode(FALSE))
      [] JsonCh(t, i) = 34 -> JsonString(t, i)
      [] JsonCh(t, i) = 91 ->
            IF JsonCh(t, JsonSkip(t, i + 1)) = 93
            THEN JsonOk(ArrayNode(<<>>), JsonSkip(t, i + 1) + 1)
            ELSE JsonElems(t, JsonSkip(t, i + 1), <<>>)
      [] JsonCh(t, i) = 123 ->
            IF JsonCh(t, JsonSkip(t, i + 1)) = 125
            THEN JsonOk(ObjectNode(<<>>), JsonSkip(t, i + 1) + 1)
            ELSE JsonMembers(t, JsonSkip(t, i + 1), <<>>)
      [] OTHER -> JsonNumber(t, i)

\* ParseArray: the element at p, acc the elements read
JsonElems(t, p, acc) == JsonElemDone(t, JsonValue(t, p), acc)

JsonElemDone(t, r, acc) ==
    IF ~r.ok THEN r ELSE JsonElemSep(t, JsonSkip(t, r.pos), Append(acc, r.node))

JsonElemSep(t, q, acc) ==
    IF JsonCh(t, q) = 44 THEN JsonElems(t, JsonSkip(t, q + 1), acc)
    ELSE IF JsonCh(t, q) = 93 THEN JsonOk(ArrayNode(acc), q + 1)
    ELSE JsonFail("Missing a comma or ']' after an array element.", q)

\* ParseObject: the member at p, acc the members read
JsonMembers(t, p, acc) ==
    IF JsonCh(t, p) # 34 THEN JsonFail("Missing a name for object member.", p)
    ELSE JsonColon(t, JsonString(t, p), acc)

JsonColon(t, k, acc) ==
    IF ~k.ok THEN k
    ELSE IF JsonCh(t, JsonSkip(t, k.pos)) # 58
    THEN JsonFail("Missing a colon after a name of object member.", JsonSkip(t, k.pos))
    ELSE JsonMemberDone(t, k.node.str,
                        JsonValue(t, JsonSkip(t, JsonSkip(t, k.pos) + 1)), acc)

JsonMemberDone(t, name, r, acc) ==
    IF ~r.ok THEN r ELSE JsonMemberSep(t, JsonSkip(t, r.pos), Append(acc, Member(name, r.node)))

JsonMemberSep(t, q, acc) ==
    IF JsonCh(t, q) = 44 THEN JsonMembers(t, JsonSkip(t, q + 1), acc)
    ELSE IF JsonCh(t, q) = 125 THEN JsonOk(ObjectNode(acc), q + 1)
    ELSE JsonFail("Missing a comma or '}' after an object member.", q)

\* the root must be the only value of the text
JsonRoot(t, r) ==
    IF ~r.ok THEN r
    ELSE IF JsonCh(t, JsonSkip(t, r.pos)) # 0
    THEN JsonFail("The document root must not be followed by other values.", JsonSkip(t, r.pos))
    ELSE r

\* rapidjson Document::Parse / ParseStream on the bytes up to the first NUL
JsonParse(text) ==
    IF JsonCh(CStr(text), JsonSkip(CStr(text), 1)) = 0
    THEN JsonFail("The document is empty.", JsonSkip(CStr(text), 1))
    ELSE JsonRoot(CStr(text), JsonValue(CStr(text), JsonSkip(CStr(text), 1)))

\* the texts given to the loaders: well-formed ones, malformed ones, and one
\* with a NUL byte in it
WellFormedTexts ==
    { <<110, 117, 108, 108>>,                    \* null
      <<116, 114, 117, 101>>,                    \* true
      <<32, 49, 48, 32>>,                        \* " 10 "
      <<34, 120, 34>>,                           \* "x"
      <<91, 93>>,                                \* []
      <<91, 49, 44, 32, 102, 97, 108, 115, 101, 93>>,   \* [1, false]
      <<123, 125>>,                              \* {}
      <<123, 34, 97, 34, 58, 49, 125>> }         \* {"a":1}

MalformedTexts ==
    { <<>>,                                      \* nothing
      <<91>>,                                    \* [
      <<91, 49>>,                                \* [1
      <<91, 49, 32, 49, 93>>,                    \* [1 1]
      <<110, 117, 120>>,                         \* nux
      <<49, 32, 120>>,                           \* 1 x
      <<123, 34, 97, 34, 125>>,                  \* {"a"}
      <<123, 49, 125>>,                          \* {1}
      <<34, 120>> }                              \* "x

JsonTexts == WellFormedTexts \cup MalformedTexts \cup {<<49, 0, 120>>}

\* the trees a Document holds before a load
LoadNodes == {NullNode, ArrayNode(<<IntNode(NumOf(1))>>)}

InitLoad ==
    /\ doc \in LoadNodes
    /\ pre = doc
    /\ op = "init"
    /\ arg = NoArg
    /\ ret = NoRet
    /\ err = FALSE
    /\ other = NoOther
    /\ loaderr = NoLoadError

\* what ParseStream leaves in the Document: the tree read, or on an error
\* the tree it had, and the parse result
Loaded(r) == IF r.ok THEN r.node ELSE doc

ParseResult(r) == [code |-> r.code, offset |-> IF r.ok THEN 0 ELSE r.pos - 1]

\* load_from_buffer(buffer): Parse<0>(buffer.c_str()), returns not HasParseError()
LoadFromBuffer(buffer) ==
    /\ op' = "load_from_buffer"
    /\ arg' = [NoArg EXCEPT !.text = buffer]
    /\ pre' = doc
    /\ other' = other
    /\ doc' = Loaded(JsonParse(buffer))
    /\ loaderr' = ParseResult(JsonParse(buffer))
    /\ ret' = Returned([has |-> TRUE, val |-> VBool(JsonParse(buffer).ok)])
    /\ err' = FALSE

\* IStream::Tell() where the reader stands at pos: is_.tellg(), which fails
\* once a peek() has met the end of the stream; -1 is the pos_type(-1) it
\* then returns, which get_load_error() prints as 4294967295
Tell(is, pos) == IF pos > Len(is) THEN -1 ELSE pos - 1

\* load_from_stream(is): IStream gives NUL at the end of the stream, and the
\* reader stops at the first NUL; the error offset is IStream::Tell()
LoadFromStream(is) ==
    /\ op' = "load_from_stream"
    /\ arg' = [NoArg EXCEPT !.text = is]
    /\ pre' = doc
    /\ other' = other
    /\ doc' = Loaded(JsonParse(is))
    /\ loaderr' = IF JsonParse(is).ok THEN NoLoadError
                  ELSE [code |-> JsonParse(is).code, offset |-> Tell(is, JsonParse(is).pos)]
    /\ ret' = Returned([has |-> TRUE, val |-> VBool(JsonParse(is).ok)])
    /\ err' = FALSE

\* load_from_file(path): false when the file cannot be opened, the Document
\* untouched; else ParseStream on its bytes
LoadFromFile(found, content) ==
    /\ op' = "load_from_file"
    /\ arg' = [NoArg EXCEPT !.text = content, !.found = found]
    /\ pre' = doc
    /\ other' = other
    /\ doc' = IF found THEN Loaded(JsonParse(content)) ELSE doc
    /\ loaderr' = IF found THEN ParseResult(JsonParse(content)) ELSE loaderr
    /\ ret' = Returned([has |-> TRUE, val |-> VBool(found /\ JsonParse(content).ok)])
    /\ err' = FALSE

\* Value v(json_str): a fresh Document, load_from_buffer, and
\* std::runtime_error when it returns false; no Value then exists, and doc is
\* the one the program had
ValueFromText(json_str) ==
    /\ op' = "value_from_text"
    /\ arg' = [NoArg EXCEPT !.text = json_str]
    /\ pre' = doc
    /\ other' = other
    /\ doc' = IF JsonParse(json_str).ok THEN JsonParse(json_str).node ELSE doc
    /\ loaderr' = IF JsonParse(json_str).ok THEN NoLoadError ELSE loaderr
    /\ ret' = NoRet
    /\ err' = ~JsonParse(json_str).ok

\* get_load_error(): "Error offset[%u]: %s" of GetErrorOffset() and
\* GetParseError_En(GetParseError())
GetLoadError ==
    /\ op' = "get_load_error"
    /\ arg' = NoArg
    /\ pre' = doc
    /\ other' = other
    /\ doc' = doc
    /\ loaderr' = loaderr
    /\ ret' = [NoRet EXCEPT !.has = TRUE,
                            !.vec = <<"Error offset[", loaderr.offset, "]: ", loaderr.code>>]
    /\ err' = FALSE

NextLoad ==
    \/ \E buffer \in JsonTexts : LoadFromBuffer(buffer)
    \/ \E is \in JsonTexts : LoadFromStream(is)
    \/ \E found \in BOOLEAN, content \in JsonTexts : LoadFromFile(found, content)
    \/ \E json_str \in JsonTexts : ValueFromText(json_str)
    \/ GetLoadError

SpecLoad == InitLoad /\ [][NextLoad]_vars

(***************************************************************************)
(* Containers of strings, and the str_copy flag: every entry point that    *)
(* takes the flag.                                                         *)
(***************************************************************************)
\* the std::vector<std::string> given
StrSeqs == SeqsUpTo({<<120>>, <<97, 0, 98>>}, MaxArr)

\* the maps given, as their pairs in iteration order: std::string to int and
\* std::string to std::string
IntMaps ==
    {m \in SeqsUpTo({[first |-> k, second |-> x] : k \in Keys, x \in {NumOf(1)}}, 2) :
        \A i, j \in DOMAIN m : m[i].first = m[j].first => i = j}

StrMaps ==
    {m \in SeqsUpTo({[first |-> k, second |-> x] : k \in Keys, x \in {<<120>>}}, 2) :
        \A i, j \in DOMAIN m : m[i].first = m[j].first => i = j}

\* the String made of k.data(), k.length(): copied by the allocator or not
StoredString(k, str_copy) == IF str_copy THEN StringNode(k) ELSE StringView(k)

\* the member made of a name set from k.first.data(), k.first.length()
StoredMember(name, value, str_copy) ==
    IF str_copy THEN Member(name, value) ELSE MemberView(name, value)

\* ValueRef::set_container(const Container<std::string>& array, bool str_copy)
RECURSIVE set_container_strings(_, _, _)
set_container_strings(v, array, str_copy) ==
    IF array = <<>> THEN ArrayNode(<<>>)
    ELSE ArrayNode(Append(
            set_container_strings(v, SubSeq(array, 1, Len(array) - 1), str_copy).elems,
            StoredString(array[Len(array)], str_copy)))

\* ValueRef::set_container(const Container<std::string, Value>& map, bool
\* str_copy), Value a number
RECURSIVE set_container_int_map(_, _, _)
set_container_int_map(v, map, str_copy) ==
    IF map = <<>> THEN ObjectNode(<<>>)
    ELSE ObjectNode(Append(
            set_container_int_map(v, SubSeq(map, 1, Len(map) - 1), str_copy).members,
            StoredMember(map[Len(map)].first, IntNode(map[Len(map)].second), str_copy)))

\* ValueRef::set_container(const Container<std::string, std::string>& map,
\* bool str_copy)
RECURSIVE set_container_string_map(_, _, _)
set_container_string_map(v, map, str_copy) ==
    IF map = <<>> THEN ObjectNode(<<>>)
    ELSE ObjectNode(Append(
            set_container_string_map(v, SubSeq(map, 1, Len(map) - 1), str_copy).members,
            StoredMember(map[Len(map)].first,
                         StoredString(map[Len(map)].second, str_copy), str_copy)))

\* ValueRef::set_array(array, str_copy): set_container(array, str_copy)
set_array(v, array, str_copy) == set_container_strings(v, array, str_copy)

\* ValueRef::set_object(map, str_copy): set_container(map, str_copy)
set_object(v, map, str_copy) == set_container_int_map(v, map, str_copy)

\* ArrayRef::set_container(array, str_copy): valueRef_.set_container(array, true)
ArrayRef_set_container(v, array, str_copy) == set_container_strings(v, array, TRUE)

\* ObjectRef::set_container(map, str_copy): valueRef_.set_container(map, true)
ObjectRef_set_container(v, map, str_copy) == set_container_int_map(v, map, TRUE)

InitStrings ==
    /\ doc \in PriorNodes
    /\ pre = doc
    /\ op = "init"
    /\ arg = NoArg
    /\ ret = NoRet
    /\ err = FALSE
    /\ other = NoOther
    /\ loaderr = NoLoadError

\* root.set_container(array, str_copy), array a std::vector<std::string>
SetContainerStrings(array, str_copy) ==
    /\ op' = "set_container_strings"
    /\ pre' = doc
    /\ loaderr' = loaderr
    /\ other' = other
    /\ arg' = [NoArg EXCEPT !.seq = array, !.str_copy = str_copy]
    /\ doc' = set_container_strings(doc, array, str_copy)
    /\ ret' = NoRet
    /\ err' = FALSE

\* root.set_container(map, str_copy), map a std::map<std::string, int>
SetContainerIntMap(map, str_copy) ==
    /\ op' = "set_container_int_map"
    /\ pre' = doc
    /\ loaderr' = loaderr
    /\ other' = other
    /\ arg' = [NoArg EXCEPT !.seq = map, !.str_copy = str_copy]
    /\ doc' = set_container_int_map(doc, map, str_copy)
    /\ ret' = NoRet
    /\ err' = FALSE

\* root.set_container(map, str_copy), map from std::string to std::string
SetContainerStringMap(map, str_copy) ==
    /\ op' = "set_container_string_map"
    /\ pre' = doc
    /\ loaderr' = loaderr
    /\ other' = other
    /\ arg' = [NoArg EXCEPT !.seq = map, !.str_copy = str_copy]
    /\ doc' = set_container_string_map(doc, map, str_copy)
    /\ ret' = NoRet
    /\ err' = FALSE

\* root.set_array(array, str_copy)
SetArrayStrings(array, str_copy) ==
    /\ op' = "set_array"
    /\ pre' = doc
    /\ loaderr' = loaderr
    /\ other' = other
    /\ arg' = [NoArg EXCEPT !.seq = array, !.str_copy = str_copy]
    /\ doc' = set_array(doc, array, str_copy)
    /\ ret' = NoRet
    /\ err' = FALSE

\* root.set_object(map, str_copy)
SetObjectMap(map, str_copy) ==
    /\ op' = "set_object"
    /\ pre' = doc
    /\ loaderr' = loaderr
    /\ other' = other
    /\ arg' = [NoArg EXCEPT !.seq = map, !.str_copy = str_copy]
    /\ doc' = set_object(doc, map, str_copy)
    /\ ret' = NoRet
    /\ err' = FALSE

\* ArrayRef(root).set_container(array, str_copy)
ArrayRefSetContainer(array, str_copy) ==
    /\ op' = "arrayref_set_container"
    /\ pre' = doc
    /\ loaderr' = loaderr
    /\ other' = other
    /\ arg' = [NoArg EXCEPT !.seq = array, !.str_copy = str_copy]
    /\ IF ~ArrayRef_ctor(doc).ok
       THEN doc' = doc /\ Throw
       ELSE /\ doc' = ArrayRef_set_container(ArrayRef_ctor(doc).node, array, str_copy)
            /\ ret' = NoRet
            /\ err' = FALSE

\* ObjectRef(root).set_container(map, str_copy)
ObjectRefSetContainer(map, str_copy) ==
    /\ op' = "objectref_set_container"
    /\ pre' = doc
    /\ loaderr' = loaderr
    /\ other' = other
    /\ arg' = [NoArg EXCEPT !.seq = map, !.str_copy = str_copy]
    /\ IF ~ObjectRef_ctor(doc).ok
       THEN doc' = doc /\ Throw
       ELSE /\ doc' = ObjectRef_set_container(ObjectRef_ctor(doc).node, map, str_copy)
            /\ ret' = NoRet
            /\ err' = FALSE

NextStrings ==
    \/ \E array \in StrSeqs, str_copy \in BOOLEAN : SetContainerStrings(array, str_copy)
    \/ \E map \in IntMaps, str_copy \in BOOLEAN : SetContainerIntMap(map, str_copy)
    \/ \E map \in StrMaps, str_copy \in BOOLEAN : SetContainerStringMap(map, str_copy)
    \/ \E array \in StrSeqs, str_copy \in BOOLEAN : SetArrayStrings(array, str_copy)
    \/ \E map \in IntMaps, str_copy \in BOOLEAN : SetObjectMap(map, str_copy)
    \/ \E array \in StrSeqs, str_copy \in BOOLEAN : ArrayRefSetContainer(array, str_copy)
    \/ \E map \in IntMaps, str_copy \in BOOLEAN : ObjectRefSetContainer(map, str_copy)

SpecStrings == InitStrings /\ [][NextStrings]_vars

(***************************************************************************)
(* Arrays: ValueRef::push_back of another reference, ArrayRef::resize,     *)
(* front() and back(), and the calls that throw.                           *)
(***************************************************************************)
\* the roots the calls are made on
ArrayRoots ==
    {NullNode, BoolNode(TRUE), IntNode(NumOf(1)), StringNode(<<120>>),
     ArrayNode(<<>>), ObjectNode(<<>>)}

\* the trees of the second Value, whose root is pushed
SourceNodes == {IntNode(NumOf(1000)), ArrayNode(<<StringNode(<<120>>)>>)}

InitArray ==
    /\ doc \in ArrayRoots
    /\ pre = doc
    /\ op = "init"
    /\ arg = NoArg
    /\ ret = NoRet
    /\ err = FALSE
    /\ other \in {[live |-> TRUE, tree |-> 2, node |-> v] : v \in SourceNodes}
    /\ loaderr = NoLoadError

\* a push_back that moves the source node into the array, as PushBack does
\* with the temporary
ArrayRef_push_back_move(v, value) ==
    [node |-> ArrayNode(Append(v.elems, value)), src |-> NullNode]

\* ArrayRef::push_back(T&& value), T a const ValueRef&: dummy = value is the
\* copy assignment, CopyFrom into temp; then PushBack(temp.Move()).  node:
\* the array afterwards; src: the node value refers to afterwards
ArrayRef_push_back(v, value) ==
    [node |-> ArrayNode(Append(v.elems, CopyFrom(value))), src |-> value]

\* ValueRef::push_back(const ValueRef& value)
ValueRef_push_back(v, value) ==
    IF IsNull(v)
    THEN [ok |-> TRUE, node |-> ArrayRef_push_back(ArrayNode(<<>>), value).node,
          src |-> ArrayRef_push_back(ArrayNode(<<>>), value).src]
    ELSE IF ~IsArray(v) THEN [ok |-> FALSE, node |-> v, src |-> value]
    ELSE [ok |-> TRUE, node |-> ArrayRef_push_back(ArrayRef_ctor(v).node, value).node,
          src |-> ArrayRef_push_back(ArrayRef_ctor(v).node, value).src]

\* the references pushed: the root itself, its first element, the root of
\* the second Value
Sources == {"self", "front", "other"}

SourceNode(from) ==
    CASE from = "self" -> doc
      [] from = "front" -> doc.elems[1]
      [] from = "other" -> other.node

\* root.push_back(value), value the reference named by from
ValuePushBack(from) ==
    /\ from = "front" => IsArray(doc) /\ Len(doc.elems) >= 1
    /\ from = "other" => other.live /\ other.tree = 2
    /\ IsArray(doc) => Len(doc.elems) < MaxArr
    /\ op' = "value_push_back"
    /\ pre' = doc
    /\ loaderr' = loaderr
    /\ arg' = [NoArg EXCEPT !.func = from, !.val = SourceNode(from)]
    /\ IF ~ValueRef_push_back(doc, SourceNode(from)).ok
       THEN doc' = doc /\ other' = other /\ Throw
       ELSE /\ doc' = IF from = "front"
                      THEN [ValueRef_push_back(doc, SourceNode(from)).node
                                EXCEPT !.elems[1] = ValueRef_push_back(doc, SourceNode(from)).src]
                      ELSE ValueRef_push_back(doc, SourceNode(from)).node
            /\ other' = IF from = "other"
                        THEN [other EXCEPT !.node = ValueRef_push_back(doc, SourceNode(from)).src]
                        ELSE other
            /\ ret' = NoRet
            /\ err' = FALSE

\* the model integer of a program integer of small magnitude (below 2^24)
IntOf(n) ==
    (IF n.neg THEN -1 ELSE 1) * (n.mag[1] + 256 * n.mag[2] + 65536 * n.mag[3])

\* n - size() in size_t: the difference modulo 2^64
SizeSub(n, size) ==
    IF size = 0 THEN n.mag
    ELSE LowBytes(MagAdd(n.mag, TwoCompl(MagOfNat(size), 8)), 8)

\* int diff = n - size(): the low 32 bits, as a signed int
ResizeDiff(n, size) == IntOf(StaticCast(MkNum(FALSE, SizeSub(n, size)), 32, TRUE))

RECURSIVE PushBackTimes(_, _, _)
\* for (i = 0; i < diff; ++i) PushBack(fill)
PushBackTimes(es, diff, fill) ==
    IF diff <= 0 THEN es ELSE PushBackTimes(Append(es, fill), diff - 1, fill)

RECURSIVE PopBackTimes(_, _)
\* for (i = 0; i < diff; ++i) PopBack()
PopBackTimes(es, diff) ==
    IF diff <= 0 \/ es = <<>> THEN es ELSE PopBackTimes(SubSeq(es, 1, Len(es) - 1), diff - 1)

\* ArrayRef::resize(size_t n) and resize(size_t n, T&& value), on the
\* ArrayRef v; fill is rapidjson::Value() or the node dummy = value makes
ArrayRef_resize(v, n, fill) ==
    IF ResizeDiff(n, Len(v.elems)) > 0
    THEN ArrayNode(PushBackTimes(v.elems, ResizeDiff(n, Len(v.elems)), fill))
    ELSE IF ResizeDiff(n, Len(v.elems)) < 0
    THEN ArrayNode(PopBackTimes(v.elems, 0 - ResizeDiff(n, Len(v.elems))))
    ELSE v

\* the sizes asked for: up to MaxArr, and past 2^32
ResizeSizes ==
    {NumOf(k) : k \in 0..MaxArr}
        \cup {MkNum(FALSE, MagAdd(Pow2Mag(32), MagOfNat(k))) : k \in 0..1}

FillVals == {IntNode(NumOf(1000)), BoolNode(TRUE)}

\* ArrayRef(root).resize(n)
Resize(n) ==
    /\ op' = "resize"
    /\ pre' = doc
    /\ loaderr' = loaderr
    /\ other' = other
    /\ arg' = [NoArg EXCEPT !.n = n]
    /\ IF ~ArrayRef_ctor(doc).ok
       THEN doc' = ArrayRef_ctor(doc).node /\ Throw
       ELSE /\ doc' = ArrayRef_resize(ArrayRef_ctor(doc).node, n, NullNode)
            /\ ret' = NoRet
            /\ err' = FALSE

\* ArrayRef(root).resize(n, value)
ResizeFill(n, value) ==
    /\ op' = "resize_fill"
    /\ pre' = doc
    /\ loaderr' = loaderr
    /\ other' = other
    /\ arg' = [NoArg EXCEPT !.n = n, !.val = value]
    /\ IF ~ArrayRef_ctor(doc).ok
       THEN doc' = ArrayRef_ctor(doc).node /\ Throw
       ELSE /\ doc' = ArrayRef_resize(ArrayRef_ctor(doc).node, n, value)
            /\ ret' = NoRet
            /\ err' = FALSE

\* a front() that makes the element it has none of
ArrayRef_front_create(v) ==
    IF v.elems = <<>> THEN [ok |-> FALSE, node |-> ArrayNode(<<NullNode>>), ref |-> 0]
    ELSE [ok |-> TRUE, node |-> v, ref |-> 1]

\* ArrayRef::front(), on the ArrayRef v
ArrayRef_front(v) ==
    IF v.elems = <<>> THEN [ok |-> FALSE, node |-> v, ref |-> 0]
    ELSE [ok |-> TRUE, node |-> v, ref |-> 1]

\* ArrayRef::back()
ArrayRef_back(v) ==
    IF v.elems = <<>> THEN [ok |-> FALSE, node |-> v, ref |-> 0]
    ELSE [ok |-> TRUE, node |-> v, ref |-> Len(v.elems)]

\* ArrayRef(root).front()
Front ==
    /\ op' = "front"
    /\ pre' = doc
    /\ loaderr' = loaderr
    /\ other' = other
    /\ arg' = NoArg
    /\ IF ~ArrayRef_ctor(doc).ok
       THEN doc' = ArrayRef_ctor(doc).node /\ Throw
       ELSE /\ doc' = ArrayRef_front(ArrayRef_ctor(doc).node).node
            /\ IF ArrayRef_front(ArrayRef_ctor(doc).node).ok
               THEN ret' = RefTo(ArrayRef_front(ArrayRef_ctor(doc).node).ref) /\ err' = FALSE
               ELSE Throw

\* ArrayRef(root).back()
Back ==
    /\ op' = "back"
    /\ pre' = doc
    /\ loaderr' = loaderr
    /\ other' = other
    /\ arg' = NoArg
    /\ IF ~ArrayRef_ctor(doc).ok
       THEN doc' = ArrayRef_ctor(doc).node /\ Throw
       ELSE /\ doc' = ArrayRef_back(ArrayRef_ctor(doc).node).node
            /\ IF ArrayRef_back(ArrayRef_ctor(doc).node).ok
               THEN ret' = RefTo(ArrayRef_back(ArrayRef_ctor(doc).node).ref) /\ err' = FALSE
               ELSE Throw

NextArray ==
    \/ \E from \in Sources : ValuePushBack(from)
    \/ \E n \in ResizeSizes : Resize(n)
    \/ \E n \in ResizeSizes, value \in FillVals : ResizeFill(n, value)
    \/ Front
    \/ Back
    \/ \E idx \in 0..MaxArr : ValueIndex(idx)
    \/ \E name \in Keys : ValueIndexKey(name)
    \/ GetArray
    \/ GetObject
    \/ \E v \in {IntNode(NumOf(1))} : OtherAssign(v)

SpecArray == InitArray /\ [][NextArray]_vars

(***************************************************************************)
(* Rendering: ValueRef::to_string(MAX_LENGTH_SIZE), and the compact text   *)
(* rapidjson::Writer gives a tree.                                         *)
(***************************************************************************)
\* the digit of Writer's "0123456789ABCDEF"
HexDigit(d) == IF d < 10 THEN 48 + d ELSE 55 + d

\* Writer::WriteString, one byte: the escape of '"', '\' and the control
\* codes, every other byte as it is
EscapeByte(c) ==
    CASE c = 34 -> <<92, 34>>
      [] c = 92 -> <<92, 92>>
      [] c = 8 -> <<92, 98>>
      [] c = 9 -> <<92, 116>>
      [] c = 10 -> <<92, 110>>
      [] c = 12 -> <<92, 102>>
      [] c = 13 -> <<92, 114>>
      [] c < 32 /\ c \notin {8, 9, 10, 12, 13} ->
            <<92, 117, 48, 48, HexDigit(c \div 16), HexDigit(c % 16)>>
      [] OTHER -> <<c>>

RECURSIVE WriteBytes(_)
WriteBytes(s) == IF s = <<>> THEN <<>> ELSE EscapeByte(Head(s)) \o WriteBytes(Tail(s))

\* Writer::String(str, length)
WriteString(s) == <<34>> \o WriteBytes(s) \o <<34>>

\* Writer::Double of a double with at most one fractional digit and a small
\* magnitude: the shortest text, with ".0" for a whole number
WriteDouble(n, half) ==
    (IF n.neg THEN <<45>> ELSE <<>>)
        \o (IF n.mag = ZeroMag THEN <<48>> ELSE DecDigits(n.mag))
        \o <<46, IF half THEN 53 ELSE 48>>

RECURSIVE WriteValue(_), WriteElems(_), WriteMembers(_)
\* Accept(writer) on the node v
WriteValue(v) ==
    CASE v.kind = "Null" -> <<110, 117, 108, 108>>
      [] v.kind = "Bool" -> IF v.b THEN StrTrue ELSE StrFalse
      [] v.kind = "Int" -> IntToString(v.num)
      [] v.kind = "Double" -> WriteDouble(v.num, v.half)
      [] v.kind = "String" -> WriteString(v.str)
      [] v.kind = "Array" -> <<91>> \o WriteElems(v.elems) \o <<93>>
      [] v.kind = "Object" -> <<123>> \o WriteMembers(v.members) \o <<125>>

WriteElems(es) ==
    IF es = <<>> THEN <<>>
    ELSE IF Len(es) = 1 THEN WriteValue(es[1])
    ELSE WriteValue(es[1]) \o <<44>> \o WriteElems(Tail(es))

WriteMembers(ms) ==
    IF ms = <<>> THEN <<>>
    ELSE IF Len(ms) = 1 THEN WriteString(ms[1].name) \o <<58>> \o WriteValue(ms[1].value)
    ELSE WriteString(ms[1].name) \o <<58>> \o WriteValue(ms[1].value) \o <<44>>
            \o WriteMembers(Tail(ms))

\* Document::save_to_buffer(buffer) of a Value whose root is v
save_to_buffer(v) == WriteValue(v)

\* std::numeric_limits<size_t>::max()
SIZE_MAX == MaxOf(64, FALSE)

\* str.size() > MAX_LENGTH_SIZE ? str.substr(0, MAX_LENGTH_SIZE) + "..." : str
Ellipsis(str, MAX_LENGTH_SIZE) ==
    IF MagLt(MAX_LENGTH_SIZE.mag, MagOfNat(Len(str)))
    THEN SubSeq(str, 1, IntOf(MAX_LENGTH_SIZE)) \o <<46, 46, 46>>
    ELSE str

\* a to_string that cuts the text of every kind
to_string_cut_all(v, MAX_LENGTH_SIZE) ==
    IF IsNull(v) THEN Ellipsis(<<78, 117, 108, 108>>, MAX_LENGTH_SIZE)
    ELSE IF IsNumber(v) THEN
        IF IsDouble(v) THEN Ellipsis(DoubleToString(v.num, v.half), MAX_LENGTH_SIZE)
        ELSE Ellipsis(IntToString(v.num), MAX_LENGTH_SIZE)
    ELSE IF IsBool(v) THEN Ellipsis(IF v.b THEN StrTrue ELSE StrFalse, MAX_LENGTH_SIZE)
    ELSE Ellipsis(save_to_buffer(CopyFrom(v)), MAX_LENGTH_SIZE)

\* ValueRef::to_string(size_t MAX_LENGTH_SIZE) on the node v
to_string(v, MAX_LENGTH_SIZE) ==
    IF IsNull(v) THEN <<78, 117, 108, 108>>
    ELSE IF IsNumber(v) THEN
        IF IsInt(v) THEN IntToString(v.num)
        ELSE IF IsUint(v) THEN IntToString(v.num)
        ELSE IF IsInt64(v) THEN IntToString(v.num)
        ELSE IF IsUint64(v) THEN IntToString(v.num)
        ELSE DoubleToString(v.num, v.half)
    ELSE IF IsBool(v) THEN (IF v.b THEN StrTrue ELSE StrFalse)
    ELSE Ellipsis(save_to_buffer(CopyFrom(v)), MAX_LENGTH_SIZE)

\* the trees rendered
RenderNodes ==
    {NullNode, BoolNode(TRUE), BoolNode(FALSE),
     IntNode(NumOf(1000)), IntNode(NumOf(-1)), IntNode(MaxOf(64, FALSE)),
     DoubleNode(HalvesOf(3)),
     StringNode(<<>>), StringNode(<<120>>), StringNode(<<97, 0, 98>>),
     StringNode(<<34, 92>>), StringNode(<<120, 120, 120, 120, 120, 120>>),
     ArrayNode(<<>>),
     ArrayNode(<<IntNode(NumOf(1)), StringNode(<<120>>)>>),
     ArrayNode(<<ArrayNode(<<NullNode>>), BoolNode(TRUE), DoubleNode(HalvesOf(3))>>),
     ObjectNode(<<>>),
     ObjectNode(<<Member(<<97>>, IntNode(NumOf(1)))>>),
     ObjectNode(<<Member(<<97>>, IntNode(NumOf(1))),
                  Member(<<97, 0, 98>>, ArrayNode(<<IntNode(NumOf(-1))>>))>>)}

\* the lengths given: short ones, and the default
MaxLengths == {NumOf(k) : k \in {0, 1, 2, 3, 5, 7, 8}} \cup {SIZE_MAX}

InitRender ==
    /\ doc \in RenderNodes
    /\ pre = doc
    /\ op = "init"
    /\ arg = NoArg
    /\ ret = NoRet
    /\ err = FALSE
    /\ other = NoOther
    /\ loaderr = NoLoadError

\* root.to_string(MAX_LENGTH_SIZE)
ValueToString(MAX_LENGTH_SIZE) ==
    /\ op' = "to_string"
    /\ pre' = doc
    /\ loaderr' = loaderr
    /\ other' = other
    /\ arg' = [NoArg EXCEPT !.n = MAX_LENGTH_SIZE]
    /\ doc' = doc
    /\ ret' = Returned(Some(VStr(to_string(doc, MAX_LENGTH_SIZE))))
    /\ err' = FALSE

NextRender == \E MAX_LENGTH_SIZE \in MaxLengths : ValueToString(MAX_LENGTH_SIZE)

SpecRender == InitRender /\ [][NextRender]_vars

(***************************************************************************)
(* Lookups by key: the root is drawn from nodes of every kind and objects   *)
(* whose names are prefixes of one another up to a NUL byte; the lookups    *)
(* of ValueRef and ObjectRef are applied to it.                            *)
(***************************************************************************)

\* the names looked up: "a", "b" and "a\0b"
KeyNames == {<<97>>, <<98>>, <<97, 0, 98>>}

\* the lists of names given to find_any, the empty one included
KeyLists ==
    {<<>>} \cup {<<k>> : k \in KeyNames} \cup {<<k, l>> : k, l \in KeyNames}

KeyRoots ==
    {NullNode, BoolNode(TRUE), IntNode(NumOf(1)), StringNode(<<97>>),
     ArrayNode(<<IntNode(NumOf(1))>>),
     ObjectNode(<<>>),
     ObjectNode(<<Member(<<97>>, IntNode(NumOf(1)))>>),
     ObjectNode(<<Member(<<97, 0, 98>>, IntNode(NumOf(1)))>>),
     ObjectNode(<<Member(<<98>>, IntNode(NumOf(1))),
                  Member(<<97>>, IntNode(NumOf(2)))>>),
     ObjectNode(<<Member(<<98>>, IntNode(NumOf(1))),
                  Member(<<97>>, IntNode(NumOf(2))),
                  Member(<<97>>, IntNode(NumOf(3)))>>)}

InitKeys ==
    /\ doc \in KeyRoots
    /\ pre = doc
    /\ op = "init"
    /\ arg = NoArg
    /\ ret = NoRet
    /\ err = FALSE
    /\ other = NoOther
    /\ loaderr = NoLoadError

\* rapidjson HasMember(const Ch* name): the name ends at its first NUL
HasMember(ms, name) == FindMember(ms, CStr(name)) # 0

\* ObjectRef::has(const std::string& name): HasMember(name.c_str())
ObjectRef_has(v, name) == HasMember(v.members, name)

\* has that makes the ObjectRef before it looks at the kind
ValueRef_has_coerce(v, name) ==
    IF ObjectRef_ctor(v).ok
    THEN [node |-> ObjectRef_ctor(v).node,
          has  |-> ObjectRef_has(ObjectRef_ctor(v).node, name)]
    ELSE [node |-> v, has |-> FALSE]

\* ValueRef::has(const std::string& name): the node afterwards and the answer
ValueRef_has(v, name) ==
    IF IsObject(v)
    THEN [node |-> ObjectRef_ctor(v).node,
          has  |-> ObjectRef_has(ObjectRef_ctor(v).node, name)]
    ELSE [node |-> v, has |-> FALSE]

\* ValueRef::find(const std::string& name): the node afterwards and the
\* position of the member referred to, 0 for the empty optional
ValueRef_find(v, name) ==
    IF IsObject(v)
    THEN [node |-> ObjectRef_ctor(v).node,
          ref  |-> ObjectRef_find(ObjectRef_ctor(v).node, name)]
    ELSE [node |-> v, ref |-> 0]

\* find_any that walks the members and takes the first one named in names
ObjectRef_find_any_member_order(v, names) ==
    IF \E i \in DOMAIN v.members : \E k \in DOMAIN names : v.members[i].name = names[k]
    THEN CHOOSE i \in DOMAIN v.members :
            /\ \E k \in DOMAIN names : v.members[i].name = names[k]
            /\ \A j \in DOMAIN v.members :
                  j < i => \A k \in DOMAIN names : v.members[j].name # names[k]
    ELSE 0

\* ObjectRef::find_any(Container<std::string> names): the position of the
\* member found for the first name of the list that has one, 0 for end()
RECURSIVE ObjectRef_find_any(_, _)
ObjectRef_find_any(v, names) ==
    IF names = <<>>
    THEN 0
    ELSE IF FindMember(v.members, Head(names)) # 0
         THEN FindMember(v.members, Head(names))
         ELSE ObjectRef_find_any(v, Tail(names))

\* root.has(name)
ValueHas(name) ==
    /\ op' = "value_has"
    /\ pre' = doc
    /\ loaderr' = loaderr
    /\ other' = other
    /\ arg' = [NoArg EXCEPT !.key = name]
    /\ doc' = ValueRef_has(doc, name).node
    /\ ret' = Returned(Some(VBool(ValueRef_has(doc, name).has)))
    /\ err' = FALSE

\* root.find(name)
ValueFind(name) ==
    /\ op' = "value_find"
    /\ pre' = doc
    /\ loaderr' = loaderr
    /\ other' = other
    /\ arg' = [NoArg EXCEPT !.key = name]
    /\ doc' = ValueRef_find(doc, name).node
    /\ ret' = [NoRet EXCEPT !.has = ValueRef_find(doc, name).ref # 0,
                            !.ref = ValueRef_find(doc, name).ref]
    /\ err' = FALSE

\* ObjectRef(root).has(name)
ObjectHas(name) ==
    /\ op' = "object_has"
    /\ pre' = doc
    /\ loaderr' = loaderr
    /\ other' = other
    /\ arg' = [NoArg EXCEPT !.key = name]
    /\ doc' = ObjectRef_ctor(doc).node
    /\ IF ~ObjectRef_ctor(doc).ok
       THEN Throw
       ELSE /\ ret' = Returned(Some(VBool(ObjectRef_has(ObjectRef_ctor(doc).node, name))))
            /\ err' = FALSE

\* ObjectRef(root).find_any(names)
ObjectFindAny(names) ==
    /\ op' = "object_find_any"
    /\ pre' = doc
    /\ loaderr' = loaderr
    /\ other' = other
    /\ arg' = [NoArg EXCEPT !.keys = names]
    /\ doc' = ObjectRef_ctor(doc).node
    /\ IF ~ObjectRef_ctor(doc).ok
       THEN Throw
       ELSE /\ ret' = [NoRet EXCEPT
                          !.has = ObjectRef_find_any(ObjectRef_ctor(doc).node, names) # 0,
                          !.ref = ObjectRef_find_any(ObjectRef_ctor(doc).node, names)]
            /\ err' = FALSE

NextKeys ==
    \/ \E name \in KeyNames : ValueHas(name)
    \/ \E name \in KeyNames : ValueFind(name)
    \/ \E name \in KeyNames : ObjectHas(name)
    \/ \E name \in KeyNames : ObjectFind(name)
    \/ \E name \in KeyNames : ObjectCount(name)
    \/ \E name \in KeyNames : ObjectIndex(name)
    \/ \E name \in KeyNames : ValueIndexKey(name)
    \/ \E names \in KeyLists : ObjectFindAny(names)

SpecKeys == InitKeys /\ [][NextKeys]_vars

(***************************************************************************)
(* Copy assignment between handles.  The target is a ValueRef of the root; *)
(* the source is the same handle object, a second handle of the same node, *)
(* an ArrayRef or ObjectRef of it, or the root of the Value other.          *)
(***************************************************************************)

HandleRoots ==
    {NullNode, IntNode(NumOf(1)), StringNode(<<120>>),
     ArrayNode(<<IntNode(NumOf(1))>>),
     ObjectNode(<<Member(<<97>>, IntNode(NumOf(1)))>>),
     ObjectNode(<<Member(<<97>>, ArrayNode(<<IntNode(NumOf(1000))>>)),
                  Member(<<98>>, StringNode(<<120>>))>>)}

InitHandle ==
    /\ doc \in HandleRoots
    /\ pre = doc
    /\ op = "init"
    /\ arg = NoArg
    /\ ret = NoRet
    /\ err = FALSE
    /\ other \in {[live |-> TRUE, tree |-> 2, node |-> n] :
                     n \in {NullNode, ArrayNode(<<StringNode(<<51>>)>>)}}
    /\ loaderr = NoLoadError

\* where the source handle of an assignment comes from
HandleSources == {"this", "alias", "array", "object", "other"}

\* what rapidjson CopyFrom does when rhs is the node itself: its
\* RAPIDJSON_ASSERT(this != &rhs) fails (abort(), or the exception the build
\* defines for it), or, assertions compiled out, the node is destroyed and
\* constructed again from its own bytes
SelfCopyOutcomes == {"assert", "rebuilt"}

\* ValueRef::operator=(const ValueRef& other) on the node v: whether it
\* returns, and the node afterwards.  same_handle is this == &other,
\* same_node is &value_ == &other.value_
ValueRef_assign(v, rhs, same_handle, same_node, outcome) ==
    IF same_handle
    THEN [ok |-> TRUE, node |-> v]
    ELSE IF same_node
         THEN IF outcome = "assert"
              THEN [ok |-> FALSE, node |-> v]
              ELSE [ok |-> TRUE, node |-> CopyFrom(v)]
         ELSE [ok |-> TRUE, node |-> CopyFrom(rhs)]

\* the node the source handle refers to, once the handle is made
HandleSource(from) ==
    CASE from = "array"  -> ArrayRef_ctor(doc)
      [] from = "object" -> ObjectRef_ctor(doc)
      [] from = "other"  -> [ok |-> TRUE, node |-> other.node]
      [] OTHER           -> [ok |-> TRUE, node |-> doc]

\* t = s, t a ValueRef of the root:
\*   "this"   t = t
\*   "alias"  ValueRef s(t); t = s
\*   "array"  t = ArrayRef(t), operator=(array.valueRef_)
\*   "object" t = ObjectRef(t), operator=(object.valueRef_)
\*   "other"  t = other
HandleAssign(from, outcome) ==
    /\ op' = "handle_assign"
    /\ pre' = doc
    /\ loaderr' = loaderr
    /\ other' = other
    /\ arg' = [NoArg EXCEPT !.func = from, !.val = HandleSource(from).node]
    /\ IF ~HandleSource(from).ok
       THEN doc' = doc /\ Throw
       ELSE IF ~ValueRef_assign(IF from = "other" THEN doc ELSE HandleSource(from).node,
                                HandleSource(from).node,
                                from = "this", from # "other", outcome).ok
            THEN doc' = HandleSource(from).node /\ Throw
            ELSE /\ doc' = ValueRef_assign(IF from = "other" THEN doc
                                           ELSE HandleSource(from).node,
                                           HandleSource(from).node,
                                           from = "this", from # "other", outcome).node
                 /\ ret' = NoRet
                 /\ err' = FALSE

\* MemberRef::operator=(const MemberRef& other) on member i of the Object v,
\* other a MemberRef of member j: name = other.name; value = other.value
MemberRef_assign(v, i, j, same_handle, outcome) ==
    IF ~ValueRef_assign(StringNode(v.members[i].name), StringNode(v.members[j].name),
                        same_handle, i = j, outcome).ok
    THEN [ok |-> FALSE, node |-> v]
    ELSE IF ~ValueRef_assign(v.members[i].value, v.members[j].value,
                             same_handle, i = j, outcome).ok
         THEN [ok |-> FALSE, node |-> v]
         ELSE [ok |-> TRUE,
               node |-> ObjectNode([v.members EXCEPT
                   ![i] = [name  |-> ValueRef_assign(StringNode(v.members[i].name),
                                                     StringNode(v.members[j].name),
                                                     same_handle, i = j, outcome).node.str,
                           value |-> ValueRef_assign(v.members[i].value,
                                                     v.members[j].value,
                                                     same_handle, i = j, outcome).node,
                           view  |-> IF same_handle \/ i = j THEN v.members[i].view
                                     ELSE v.members[j].view]])]

\* a = b, a the MemberRef of member i and b that of member j of the root
\* (the same object when same_handle)
MemberRefAssign(i, j, same_handle, outcome) ==
    /\ IsObject(doc)
    /\ i \in DOMAIN doc.members
    /\ j \in DOMAIN doc.members
    /\ same_handle => i = j
    /\ op' = "memberref_assign"
    /\ pre' = doc
    /\ loaderr' = loaderr
    /\ other' = other
    /\ arg' = [NoArg EXCEPT !.idx = i, !.last = j,
                            !.func = IF same_handle THEN "this" ELSE "alias"]
    /\ doc' = MemberRef_assign(doc, i, j, same_handle, outcome).node
    /\ IF ~MemberRef_assign(doc, i, j, same_handle, outcome).ok
       THEN Throw
       ELSE ret' = NoRet /\ err' = FALSE

NextHandle ==
    \/ \E from \in HandleSources, outcome \in SelfCopyOutcomes :
          HandleAssign(from, outcome)
    \/ \E i, j \in 1..MaxMembers, same_handle \in BOOLEAN, outcome \in SelfCopyOutcomes :
          MemberRefAssign(i, j, same_handle, outcome)
    \/ ValueAssign
    \/ \E v \in {IntNode(NumOf(1000))} : OtherAssign(v)
    \/ \E v \in {IntNode(NumOf(1))} : OtherPushBack(v)
    \/ \E v \in MemberVals : ObjectInsert(<<98>>, v)

SpecHandle == InitHandle /\ [][NextHandle]_vars

(***************************************************************************)
(* The accessors as pure functions: the node is drawn at the start and one  *)
(* accessor is applied to it.                                              *)
(***************************************************************************)
InitConv ==
    /\ doc \in ConvNodes
    /\ pre = doc
    /\ op = "init"
    /\ arg = NoArg
    /\ ret = NoRet
    /\ err = FALSE
    /\ other = NoOther
    /\ loaderr = NoLoadError

\* root.get<T>()
Get(T) ==
    /\ op = "init"
    /\ op' = "get"
    /\ pre' = doc
    /\ loaderr' = loaderr
    /\ other' = other
    /\ arg' = [NoArg EXCEPT !.T = T]
    /\ doc' = doc
    /\ ret' = Returned(get(doc, T))
    /\ err' = FALSE

\* root.as<T>()
As(T) ==
    /\ op = "init"
    /\ op' = "as"
    /\ pre' = doc
    /\ loaderr' = loaderr
    /\ other' = other
    /\ arg' = [NoArg EXCEPT !.T = T]
    /\ doc' = doc
    /\ \E r \in as(doc, T) : ret' = Returned(Some(r))
    /\ err' = FALSE

\* detail::parse<T>(text), text the bytes of the String root
Parse(T) ==
    /\ op = "init"
    /\ IsString(doc)
    /\ op' = "parse"
    /\ pre' = doc
    /\ loaderr' = loaderr
    /\ other' = other
    /\ arg' = [NoArg EXCEPT !.T = T]
    /\ doc' = doc
    /\ ret' = Returned(parse(doc.str, T))
    /\ err' = FALSE

NextConv ==
    \/ \E T \in Types : Get(T)
    \/ \E T \in Types : As(T)
    \/ \E T \in Types \ {"char", "string"} : Parse(T)

SpecConv == InitConv /\ [][NextConv]_vars


(***************************************************************************)
(* Claims.                                                                 *)
(***************************************************************************)
\* the last call acted on an Object / Array root and key was absent / present
OnObject == IsObject(pre)

OnArray == IsArray(pre)

Absent(key) == \A i \in DOMAIN pre.members : pre.members[i].name # key

\* C1: on an Object, operator[](k) of ObjectRef and of ValueRef with k absent
\* appends the member (k, Null) as the last member, returns a reference to
\* it and raises the member count by exactly 1; with k present the member
\* count is unchanged; find(k) with k absent returns empty and changes nothing.
C1_PresentOrCreate ==
    /\ (op \in {"object_index", "value_index_key"} /\ OnObject /\ Absent(arg.key)) =>
          /\ ~err
          /\ IsObject(doc)
          /\ doc.members = Append(pre.members, Member(arg.key, NullNode))
          /\ ret.ref = Len(pre.members) + 1
    /\ (op \in {"object_index", "value_index_key"} /\ OnObject /\ ~Absent(arg.key)) =>
          /\ ~err
          /\ Len(doc.members) = Len(pre.members)
    /\ (op = "object_find" /\ OnObject /\ Absent(arg.key)) =>
          /\ ~err
          /\ ~ret.has
          /\ doc = pre

\* C2: on an Array of size s, array[i] throws when i >= s and returns a
\* reference to the i-th element when i < s, for ValueRef::operator[] and
\* ArrayRef::operator[] alike.
C2_ArrayIndex ==
    (op \in {"value_index", "array_index"} /\ OnArray) =>
        /\ arg.idx >= Len(pre.elems) => err /\ ret.ref = 0
        /\ arg.idx < Len(pre.elems) => ~err /\ ret.ref = arg.idx + 1

C2_Witness ==
    /\ op = "array_index"
    /\ OnArray
    /\ Len(pre.elems) = 2
    /\ arg.idx = 2
    /\ err

\* C3: get_vector<T> returns a vector iff get<T> succeeds on every element,
\* and then it holds the elements' get<T> values in array order; otherwise
\* the result is empty with nothing partial; an empty array gives an empty
\* vector, not "no result".
C3_GetVectorAllOrNothing ==
    (op = "get_vector" /\ OnArray) =>
        /\ ~err
        /\ ret.has <=> \A i \in DOMAIN pre.elems : get(pre.elems[i], arg.T).has
        /\ ret.has =>
              /\ Len(ret.vec) = Len(pre.elems)
              /\ \A i \in DOMAIN pre.elems : ret.vec[i] = get(pre.elems[i], arg.T).val
        /\ ~ret.has => ret.vec = <<>>
        /\ pre.elems = <<>> => ret.has

\* [1, "x"].get_vector<int>() is "no result"
C3_Witness ==
    /\ op = "get_vector"
    /\ arg.T = "int32"
    /\ pre = ArrayNode(<<IntNode(NumOf(1)), StringNode(<<120>>)>>)
    /\ ~ret.has
    /\ ret.vec = <<>>

\* the one value as<T> gives for an element (the elements stored hold no
\* double, so no cast is undefined)
AsOf(e, T) == CHOOSE x \in as(e, T) : TRUE

\* what the claim names as T's zero / empty value
ZeroValue(T) ==
    CASE T = "bool" -> VBool(FALSE)
      [] T = "string" -> VStr(<<>>)
      [] T = "double" -> VDbl(NumOf(0), FALSE)
      [] T = "char" -> VInt(NumOf(32))
      [] OTHER -> VInt(NumOf(0))

\* C4: as_vector<T>(predicate) returns, in array order, exactly the values
\* as<T>(e) of the elements for which the predicate holds; with the default
\* predicate it has size() entries, and an element that cannot be converted
\* contributes T's zero value instead of being skipped.
C4_AsVectorLenient ==
    (op = "as_vector" /\ OnArray) =>
        /\ ~err
        /\ ret.vec = SelectSeq([i \in DOMAIN pre.elems |-> AsOf(pre.elems[i], arg.T)],
                               LAMBDA x : ApplyPredicate(arg.func, arg.T, x))
        /\ arg.func = "all" =>
              /\ Len(ret.vec) = Len(pre.elems)
              /\ \A i \in DOMAIN pre.elems :
                    /\ IsNull(pre.elems[i]) => ret.vec[i] = ZeroValue(arg.T)
                    /\ (pre.elems[i] = StringNode(<<120>>) /\ arg.T \in IntTypes) =>
                          ret.vec[i] = VInt(NumOf(0))

\* [1, "x"].as_vector<int>() is [1, 0]
C4_Witness ==
    /\ op = "as_vector"
    /\ arg.T = "int32"
    /\ arg.func = "all"
    /\ pre = ArrayNode(<<IntNode(NumOf(1)), StringNode(<<120>>)>>)
    /\ ret.vec = <<VInt(NumOf(1)), VInt(NumOf(0))>>

\* C5: whenever strict get<T> returns a value (T bool, char, a fixed-width
\* integer or string), as<T> returns the same value, also for String nodes
\* with embedded NUL bytes.
C5_AsAgreesWithGet ==
    (op = "as" /\ arg.T \in IntTypes \cup {"bool", "char", "string"}
               /\ get(pre, arg.T).has) =>
        /\ ret.has
        /\ ret.val = get(pre, arg.T).val

\* C6: on an integer node holding v, get<T> for a fixed-width integer T
\* returns v when min(T) <= v <= max(T) and empty otherwise; on every node
\* that is not an integer it returns empty.
C6_StrictIntegerRange ==
    (op = "get" /\ arg.T \in IntTypes) =>
        IF pre.kind = "Int"
        THEN /\ InRange(pre.num, arg.T) => ret.has /\ ret.val = VInt(pre.num)
             /\ ~InRange(pre.num, arg.T) => ~ret.has
        ELSE ~ret.has

\* get<int8_t>() on 1000 is empty
C6_Witness ==
    /\ op = "get"
    /\ arg.T = "int8"
    /\ pre = IntNode(NumOf(1000))
    /\ ~ret.has

\* C7: get<T> never throws and never changes the node; get<bool> returns a
\* value iff the node is Bool, get<string> iff it is String, get<double> iff
\* it is a number of any kind; otherwise the optional is absent.
C7_StrictKinds ==
    op = "get" =>
        /\ ~err
        /\ doc = pre
        /\ arg.T = "bool" => (ret.has <=> pre.kind = "Bool")
        /\ arg.T = "string" => (ret.has <=> pre.kind = "String")
        /\ arg.T = "double" => (ret.has <=> pre.kind \in {"Int", "Double"})
        /\ ~ret.has => ret.val = VNone

\* get<double>() on the integer 2^64 - 1 returns a value
C7_Witness ==
    /\ op = "get"
    /\ arg.T = "double"
    /\ pre = IntNode(MaxOf(64, FALSE))
    /\ ret.has
    /\ ret.val.ty = "double"

\* C8: as<T> has no failure mode: for every node kind and every T it returns
\* a value of T without throwing and without changing the node; on Null,
\* Array and Object nodes that value is 0, false, ' ' or "".
C8_PermissiveTotal ==
    op = "as" =>
        /\ ~err
        /\ doc = pre
        /\ ret.has
        /\ ret.val.ty = (CASE arg.T = "bool" -> "bool"
                           [] arg.T = "double" -> "double"
                           [] arg.T = "string" -> "string"
                           [] OTHER -> "int")
        /\ ret.val.ty = "int" => InRange(ret.val.num, arg.T)
        /\ pre.kind \in {"Null", "Array", "Object"} => ret.val = ZeroValue(arg.T)

\* as<char>() on a non-empty Array is ' '
C8_Witness ==
    /\ op = "as"
    /\ arg.T = "char"
    /\ pre = ArrayNode(<<IntNode(NumOf(1))>>)
    /\ ret.val = VInt(NumOf(32))

\* a base-10 numeral: an optional '-' and one digit or more, nothing else
IsNumeral(t) ==
    LET ds == IF t # <<>> /\ Head(t) = 45 THEN Tail(t) ELSE t
    IN  ds # <<>> /\ \A i \in DOMAIN ds : IsDigit(ds[i])

NumeralValue(t) ==
    IF Head(t) = 45 THEN MkNum(TRUE, DigitsMag(t, 2, Len(t) + 1))
    ELSE MkNum(FALSE, DigitsMag(t, 1, Len(t) + 1))

\* a numeral followed by at least one more byte
HasTrailing(t) ==
    /\ ~IsNumeral(t)
    /\ \E n \in 1..(Len(t) - 1) : IsNumeral(SubSeq(t, 1, n))

Rejected(t, T) ==
    \/ t = <<>>
    \/ HasTrailing(t)
    \/ IsNumeral(t) /\ ~InRange(NumeralValue(t), T)

\* C9: for an integer T, as<T> on a String node returns n when the whole
\* text is a numeral of n within T's range, and 0 when the text is empty,
\* when bytes follow the numeral (bytes after an embedded NUL included) or
\* when n is outside T's range; detail::parse<T> returns "no value" in
\* those rejected cases.
C9_WholeTextOnly ==
    /\ (op = "as" /\ IsString(pre) /\ arg.T \in IntTypes) =>
          /\ (IsNumeral(pre.str) /\ InRange(NumeralValue(pre.str), arg.T)) =>
                ret.val = VInt(NumeralValue(pre.str))
          /\ Rejected(pre.str, arg.T) => ret.val = VInt(NumOf(0))
    /\ (op = "parse" /\ arg.T \in IntTypes) =>
          /\ (IsNumeral(pre.str) /\ InRange(NumeralValue(pre.str), arg.T)) =>
                ret.has /\ ret.val = VInt(NumeralValue(pre.str))
          /\ Rejected(pre.str, arg.T) => ~ret.has

\* C10: insert(key, value) and insert(key) on an Object always append: the
\* member count grows by exactly 1, the new member is last, every member
\* there before keeps its name, value and position, whether or not key was
\* present; insert(key) stores Null and returns a reference to the new member.
C10_InsertAppends ==
    (op \in {"object_insert", "object_insert_null"} /\ OnObject) =>
        /\ ~err
        /\ IsObject(doc)
        /\ Len(doc.members) = Len(pre.members) + 1
        /\ SubSeq(doc.members, 1, Len(pre.members)) = pre.members
        /\ doc.members[Len(doc.members)].name = arg.key
        /\ op = "object_insert" => doc.members[Len(doc.members)].value = arg.val
        /\ op = "object_insert_null" =>
              /\ doc.members[Len(doc.members)].value = NullNode
              /\ ret.ref = Len(doc.members)

\* a second member named "a" is appended after the first
C10_Witness ==
    /\ op = "object_insert"
    /\ arg.key = <<97>>
    /\ pre = ObjectNode(<<Member(<<97>>, NullNode)>>)
    /\ doc = ObjectNode(<<Member(<<97>>, NullNode), Member(<<97>>, IntNode(NumOf(1000)))>>)


\* position of the earliest member of the object before the call named key
First(key) ==
    CHOOSE i \in DOMAIN pre.members :
        pre.members[i].name = key /\ \A j \in 1..(i - 1) : pre.members[j].name # key

\* the object before the call holds several members named key
Duplicated(key) ==
    \E i, j \in DOMAIN pre.members :
        i # j /\ pre.members[i].name = key /\ pre.members[j].name = key

\* C11: with several members of the same key, find(key), operator[](key)
\* and get_value<T>(key) refer to the earliest member named key and
\* operator[] inserts nothing; count(key) is 1 for a key present and 0 for a
\* key absent; iterating from begin() to end() visits every member,
\* duplicates included.
C11_FirstMatch ==
    /\ (op = "object_find" /\ OnObject /\ ~Absent(arg.key)) =>
          ret.has /\ ret.ref = First(arg.key) /\ doc = pre
    /\ (op = "object_index" /\ OnObject /\ ~Absent(arg.key)) =>
          ret.ref = First(arg.key) /\ doc = pre
    /\ (op = "object_get_value" /\ OnObject /\ ~Absent(arg.key)) =>
          /\ ret.has = get(pre.members[First(arg.key)].value, arg.T).has
          /\ ret.val = get(pre.members[First(arg.key)].value, arg.T).val
    /\ (op = "object_count" /\ OnObject) =>
          /\ ~Absent(arg.key) => ret.val = VInt(NumOf(1))
          /\ Absent(arg.key) => ret.val = VInt(NumOf(0))
    /\ (op = "object_iterate" /\ OnObject) =>
          /\ Len(ret.vec) = Len(pre.members)
          /\ \A i \in DOMAIN pre.members : ret.vec[i] = pre.members[i]

\* {"a": null, "a": 1000}: get_value<int>("a") reads the first member and is empty
C11_Witness ==
    /\ op = "object_get_value"
    /\ arg.T = "int32"
    /\ arg.key = <<97>>
    /\ pre = ObjectNode(<<Member(<<97>>, NullNode), Member(<<97>>, IntNode(NumOf(1000)))>>)
    /\ Duplicated(arg.key)
    /\ ~ret.has

\* C12: erase(key) removes exactly the first member named key when there is
\* one: the member count drops by 1 and every other member, later
\* duplicates of key included, keeps its value and relative order; with no
\* member named key the object is unchanged.
C12_EraseFirst ==
    (op = "object_erase" /\ OnObject) =>
        /\ ~err
        /\ Absent(arg.key) => doc = pre
        /\ ~Absent(arg.key) =>
              /\ IsObject(doc)
              /\ Len(doc.members) = Len(pre.members) - 1
              /\ \A i \in DOMAIN doc.members :
                    doc.members[i] = IF i < First(arg.key) THEN pre.members[i]
                                     ELSE pre.members[i + 1]
              /\ Duplicated(arg.key) => \E i \in DOMAIN doc.members :
                                            doc.members[i].name = arg.key

\* {"a": null, "a\0b": 1000, "a": 1000}.erase("a") leaves {"a\0b": 1000, "a": 1000}
C12_Witness ==
    /\ op = "object_erase"
    /\ arg.key = <<97>>
    /\ pre = ObjectNode(<<Member(<<97>>, NullNode), Member(<<97, 0, 98>>, IntNode(NumOf(1000))),
                          Member(<<97>>, IntNode(NumOf(1000)))>>)
    /\ doc = ObjectNode(<<Member(<<97, 0, 98>>, IntNode(NumOf(1000))),
                          Member(<<97>>, IntNode(NumOf(1000)))>>)

\* a is b with some members left out, the rest in b's order
RECURSIVE KeepsOrder(_, _)
KeepsOrder(a, b) ==
    IF a = <<>> THEN TRUE
    ELSE IF b = <<>> THEN FALSE
    ELSE IF Head(a) = Head(b) /\ KeepsOrder(Tail(a), Tail(b)) THEN TRUE
    ELSE KeepsOrder(a, Tail(b))

\* C13: no object mutation reorders members: insert and a creating
\* operator[] leave the members there before in place and add at the end,
\* erase by key, position or range leaves the surviving members in their
\* order, and assigning to a member's value moves no member.
C13_InsertionOrder ==
    /\ (op \in {"object_insert", "object_insert_null", "object_index", "value_index_key"}
           /\ OnObject) =>
          /\ IsObject(doc)
          /\ Len(doc.members) \in {Len(pre.members), Len(pre.members) + 1}
          /\ SubSeq(doc.members, 1, Len(pre.members)) = pre.members
    /\ (op \in {"object_erase", "object_erase_pos", "object_erase_range"} /\ OnObject) =>
          /\ IsObject(doc)
          /\ KeepsOrder(doc.members, pre.members)
          /\ op = "object_erase_pos" => Len(doc.members) = Len(pre.members) - 1
          /\ op = "object_erase_range" =>
                Len(doc.members) = Len(pre.members) - (arg.last - arg.idx)
    /\ (op = "member_assign" /\ OnObject) =>
          /\ IsObject(doc)
          /\ Len(doc.members) = Len(pre.members)
          /\ \A i \in DOMAIN pre.members :
                /\ doc.members[i].name = pre.members[i].name
                /\ i # arg.idx => doc.members[i] = pre.members[i]

\* erasing the first of three members leaves the second and third in order
C13_Witness ==
    /\ op = "object_erase_pos"
    /\ arg.idx = 1
    /\ pre = ObjectNode(<<Member(<<97>>, NullNode), Member(<<97, 0, 98>>, NullNode),
                          Member(<<97>>, IntNode(NumOf(1000)))>>)
    /\ doc = ObjectNode(<<Member(<<97, 0, 98>>, NullNode), Member(<<97>>, IntNode(NumOf(1000)))>>)

\* C20: get_value<T>(key, default) returns the strict get<T> value of the
\* first member named key when that member exists and converts, and default
\* in every other case; it never throws and never inserts a member.
C20_GetValueDefault ==
    (op = "object_get_value_default" /\ OnObject) =>
        /\ ~err
        /\ doc = pre
        /\ ret.has
        /\ ret.val = IF ~Absent(arg.key)
                        /\ get(pre.members[First(arg.key)].value, arg.T).has
                     THEN get(pre.members[First(arg.key)].value, arg.T).val
                     ELSE arg.def

\* get_value<int8_t>("a", 7) on {"a": 1000} is 7
C20_Witness ==
    /\ op = "object_get_value_default"
    /\ arg.T = "int8"
    /\ arg.key = <<97>>
    /\ pre = ObjectNode(<<Member(<<97>>, IntNode(NumOf(1000)))>>)
    /\ ret.val = VInt(NumOf(7))


\* C14: constructing an ArrayRef (ObjectRef) over a node, as get_array()
\* (get_object()) does, turns a Null node into an empty Array (Object) in
\* place, leaves an Array (Object) unchanged and throws for every other kind.
C14_ViewConstruction ==
    /\ op = "get_array" =>
          /\ IsNull(pre) => ~err /\ ret.has /\ doc = ArrayNode(<<>>)
          /\ IsArray(pre) => ~err /\ ret.has /\ doc = pre
          /\ (~IsNull(pre) /\ ~IsArray(pre)) => err /\ ~ret.has
    /\ op = "get_object" =>
          /\ IsNull(pre) => ~err /\ ret.has /\ doc = ObjectNode(<<>>)
          /\ IsObject(pre) => ~err /\ ret.has /\ doc = pre
          /\ (~IsNull(pre) /\ ~IsObject(pre)) => err /\ ~ret.has

\* get_array() on the String "x" throws
C14_Witness ==
    /\ op = "get_array"
    /\ pre = StringNode(<<120>>)
    /\ err

\* C15: ValueRef::operator[](key) on a Null node makes it an Object holding
\* exactly the member (key, Null) and returns a reference to that member's
\* value; on an Object it is present-or-create; on a Bool, number, String
\* or Array it throws.
C15_ValueIndexKey ==
    op = "value_index_key" =>
        /\ IsNull(pre) =>
              /\ ~err
              /\ doc = ObjectNode(<<Member(arg.key, NullNode)>>)
              /\ ret.ref = 1
        /\ (IsObject(pre) /\ Absent(arg.key)) =>
              /\ ~err
              /\ doc = ObjectNode(Append(pre.members, Member(arg.key, NullNode)))
              /\ ret.ref = Len(pre.members) + 1
        /\ (IsObject(pre) /\ ~Absent(arg.key)) =>
              /\ ~err
              /\ doc = pre
              /\ ret.ref = First(arg.key)
        /\ (~IsNull(pre) /\ ~IsObject(pre)) => err


\* every element of the array before the call is an int
AllInt(v) == IsArray(v) /\ \A i \in DOMAIN v.elems : v.elems[i].kind = "Int"

\* C16: assigning a sequence s of ints to a node of any kind makes it an
\* Array of size |s| holding the values of s in order, nothing of its
\* previous content, and get_vector<int>() on that array returns exactly s.
C16_SequenceRoundTrip ==
    /\ op = "assign_seq" =>
          /\ ~err
          /\ IsArray(doc)
          /\ Len(doc.elems) = Len(arg.seq)
          /\ \A i \in DOMAIN arg.seq : doc.elems[i] = IntNode(arg.seq[i])
          /\ get_vector(doc.elems, "int32", <<>>).has
          /\ get_vector(doc.elems, "int32", <<>>).vec = [i \in DOMAIN arg.seq |-> VInt(arg.seq[i])]
    /\ (op = "get_vector" /\ arg.T = "int32" /\ AllInt(pre)) =>
          /\ ret.has
          /\ Len(ret.vec) = Len(pre.elems)
          /\ \A i \in DOMAIN pre.elems : ret.vec[i] = VInt(pre.elems[i].num)
          /\ doc = pre

\* [1, 1000] is assigned over the Object {"b": null}
C16_Witness ==
    /\ op = "assign_seq"
    /\ arg.seq = <<NumOf(1), NumOf(1000)>>
    /\ IsObject(pre)
    /\ doc = ArrayNode(<<IntNode(NumOf(1)), IntNode(NumOf(1000))>>)

\* C17: assigning a string-keyed map m makes the node an Object of exactly
\* |m| members, the i-th member being the i-th (key, value) pair in m's
\* iteration order; the members held before are gone; every traversal of
\* the object yields that same order.
C17_MapAssignment ==
    /\ op = "assign_map" =>
          /\ ~err
          /\ IsObject(doc)
          /\ Len(doc.members) = Len(arg.seq)
          /\ \A i \in DOMAIN arg.seq :
                doc.members[i] = Member(arg.seq[i].first, IntNode(arg.seq[i].second))
    /\ (op = "object_iterate" /\ OnObject) =>
          /\ doc = pre
          /\ Len(ret.vec) = Len(pre.members)
          /\ \A i \in DOMAIN pre.members : ret.vec[i] = pre.members[i]

\* {"b": 1, "a": 1000} in that iteration order is assigned over {"b": null}
C17_Witness ==
    /\ op = "assign_map"
    /\ arg.seq = <<[first |-> <<98>>, second |-> NumOf(1)],
                   [first |-> <<97>>, second |-> NumOf(1000)]>>
    /\ pre = ObjectNode(<<Member(<<98>>, NullNode)>>)
    /\ doc = ObjectNode(<<Member(<<98>>, IntNode(NumOf(1))), Member(<<97>>, IntNode(NumOf(1000)))>>)


\* C18: a Value constructed or assigned from another reference is
\* structurally equal to the source right afterwards and its root is not
\* identity-equal to the source node; a later mutation of the copy leaves
\* the source tree unchanged, and a mutation of the source leaves the copy
\* unchanged.
C18_DeepCopy ==
    [][/\ op' \in {"value_copy", "value_assign"} =>
             /\ OtherTree' = doc
             /\ doc' = doc
             /\ other'.tree # 1
       /\ op' = "root_equals" => ret'.val = VBool(FALSE)
       /\ op' \in {"other_assign", "other_push_back", "other_insert"} => doc' = doc
       /\ (other.live /\ op' \in {"assign", "array_push_back", "object_insert"}) =>
             OtherTree' = OtherTree]_vars

\* the copy of [1] got 1000 appended while the source still is [1]
C18_Witness ==
    /\ op = "other_push_back"
    /\ ~err
    /\ other.live
    /\ doc = ArrayNode(<<IntNode(NumOf(1))>>)
    /\ OtherTree = ArrayNode(<<IntNode(NumOf(1)), IntNode(NumOf(1000))>>)

\* C19: no way of parsing text raises at the call site: given malformed text,
\* load_from_buffer, load_from_stream, load_from_file and the construction of
\* a Value from JSON text do not throw and report the failure as a result,
\* and get_load_error() then yields the offset and the message of the error.
C19_ParseFailureQueryable ==
    /\ (/\ op \in {"load_from_buffer", "load_from_stream", "load_from_file",
                   "value_from_text"}
        /\ arg.found
        /\ arg.text \in MalformedTexts) =>
            /\ ~err
            /\ op # "value_from_text" => ret.val = VBool(FALSE)
            /\ loaderr.code # "No error."
            /\ loaderr = ParseResult(JsonParse(arg.text))
    /\ op = "get_load_error" => ret.vec[2] = loaderr.offset /\ ret.vec[4] = loaderr.code

ElemsOf(v) == IF IsArray(v) THEN v.elems ELSE <<>>

\* C22: after ArrayRef::resize(n) or resize(n, fill) on an array of size s
\* the array has exactly n elements, for every n: the first min(s, n)
\* elements are the ones it had, in order, and the n - s appended ones are
\* Null (copies of fill); nothing is inserted or removed in the middle.
C22_ResizeExact ==
    (op \in {"resize", "resize_fill"} /\ ~err) =>
        /\ IsArray(doc)
        /\ NumOf(Len(doc.elems)) = arg.n
        /\ \A i \in 1..Len(doc.elems) :
              doc.elems[i] = IF i <= Len(ElemsOf(pre)) THEN ElemsOf(pre)[i]
                             ELSE IF op = "resize" THEN NullNode
                             ELSE arg.val

\* C23: the str_copy flag the caller gives decides the storage of every
\* string stored, uniformly: with true every element, every key and every
\* string value is an owned copy, with false every one is a borrowed view;
\* for ValueRef::set_container / set_array / set_object and for
\* ArrayRef::set_container and ObjectRef::set_container.
C23_CopyFlagUniform ==
    (/\ op \in {"set_container_strings", "set_container_int_map",
                "set_container_string_map", "set_array", "set_object",
                "arrayref_set_container", "objectref_set_container"}
     /\ ~err) =>
        /\ \A i \in DOMAIN doc.elems : doc.elems[i].view = ~arg.str_copy
        /\ \A i \in DOMAIN doc.members :
              /\ doc.members[i].view = ~arg.str_copy
              /\ IsString(doc.members[i].value) =>
                    doc.members[i].value.view = ~arg.str_copy

\* a and b are congruent modulo 2^w
SameLowBits(a, b, w) == StaticCast(a, w, FALSE) = StaticCast(b, w, FALSE)

\* C24: as<T> narrows without a range check: for an integer target T of
\* width w (bool apart) and an integer node holding v it returns the value
\* of T congruent to v modulo 2^w (as<int8_t> on 1000 is -24, never the 0
\* fallback); on a Bool node it returns 1 for true and 0 for false; as<bool>
\* on a numeric node is true iff the value is not zero.
C24_AsNarrows ==
    op = "as" =>
        /\ (arg.T \in IntTypes /\ pre.kind = "Int") =>
              /\ ret.val.ty = "int"
              /\ InRange(ret.val.num, arg.T)
              /\ SameLowBits(ret.val.num, pre.num, Width(arg.T))
        /\ (arg.T = "int8" /\ pre = IntNode(NumOf(1000))) => ret.val = VInt(NumOf(-24))
        /\ (arg.T \in IntTypes /\ IsBool(pre)) =>
              ret.val = VInt(IF pre.b THEN NumOf(1) ELSE NumZero)
        /\ (arg.T = "bool" /\ IsNumber(pre)) =>
              ret.val = VBool(pre.num.mag # ZeroMag \/ pre.half)

\* as<int8_t>() on 1000 is -24
C24_Witness ==
    /\ op = "as"
    /\ arg.T = "int8"
    /\ pre = IntNode(NumOf(1000))
    /\ ret.val = VInt(NumOf(-24))

\* the text to_string cuts: the serialized tree of a String, Array or Object
Rendered(v) == WriteValue(v)

\* C25: to_string(max_len) of a String, Array or Object node whose
\* serialized text t is at most max_len bytes long is t; when t is longer it
\* is the first max_len bytes of t followed by "...", max_len + 3 bytes in
\* all.  Null renders as "Null", booleans as "true" / "false", numbers as
\* their decimal text, and none of these is ever cut.  The node is not
\* changed.
C25_ToStringTruncates ==
    op = "to_string" =>
        /\ ~err
        /\ doc = pre
        /\ ret.has
        /\ pre.kind \in {"String", "Array", "Object"} =>
              IF MagLe(MagOfNat(Len(Rendered(pre))), arg.n.mag)
              THEN ret.val.str = Rendered(pre)
              ELSE /\ Len(ret.val.str) = IntOf(arg.n) + 3
                   /\ SubSeq(ret.val.str, 1, IntOf(arg.n))
                        = SubSeq(Rendered(pre), 1, IntOf(arg.n))
                   /\ SubSeq(ret.val.str, IntOf(arg.n) + 1, IntOf(arg.n) + 3)
                        = <<46, 46, 46>>
        /\ IsNull(pre) => ret.val.str = <<78, 117, 108, 108>>
        /\ IsBool(pre) => ret.val.str = (IF pre.b THEN StrTrue ELSE StrFalse)
        /\ pre = IntNode(NumOf(1000)) => ret.val.str = <<49, 48, 48, 48>>
        /\ pre = IntNode(NumOf(-1)) => ret.val.str = <<45, 49>>
        /\ pre.kind = "Int" => ret.val.str = IntToString(pre.num)
        /\ pre.kind = "Double" => ret.val.str = DoubleToString(pre.num, pre.half)

\* [1,"x"] cut at 3 bytes is [1,...
C25_Witness ==
    /\ op = "to_string"
    /\ pre = ArrayNode(<<IntNode(NumOf(1)), StringNode(<<120>>)>>)
    /\ arg.n = NumOf(3)
    /\ ret.val.str = <<91, 49, 44, 46, 46, 46>>

\* the name at position i of the list has a member in the Object v
Present(v, names, i) == \E m \in DOMAIN v.members : v.members[m].name = names[i]

\* C26: ObjectRef::find_any(keys) returns an iterator to the member found
\* for the earliest key of the list, in list order and not in member order,
\* that the object has, and end() when the object has none of the keys, the
\* empty list included; it never changes the object.
C26_FindAnyListOrder ==
    (op = "object_find_any" /\ IsObject(pre)) =>
        /\ ~err
        /\ doc = pre
        /\ ret.has = (ret.ref # 0)
        /\ (\A i \in DOMAIN arg.keys : ~Present(pre, arg.keys, i)) => ret.ref = 0
        /\ \A i \in DOMAIN arg.keys :
              (/\ Present(pre, arg.keys, i)
               /\ \A j \in DOMAIN arg.keys : j < i => ~Present(pre, arg.keys, j)) =>
                  /\ ret.ref \in DOMAIN pre.members
                  /\ pre.members[ret.ref].name = arg.keys[i]
                  /\ \A m \in DOMAIN pre.members :
                        m < ret.ref => pre.members[m].name # arg.keys[i]

\* "a" is asked for before "b" and found, though "b" is the earlier member
C26_Witness ==
    /\ op = "object_find_any"
    /\ ~err
    /\ arg.keys = <<<<97>>, <<98>>>>
    /\ IsObject(pre)
    /\ Len(pre.members) >= 2
    /\ pre.members[1].name = <<98>>
    /\ pre.members[2].name = <<97>>
    /\ ret.ref = 2

\* C27: ValueRef::has(key) and ValueRef::find(key) never change the tree,
\* whatever the kind of the node: on a node that is not an Object they
\* answer false / empty and the node keeps its kind and content, a Null node
\* stays Null; on an Object the members stay as they were.
C27_HasFindPure ==
    op \in {"value_has", "value_find"} =>
        /\ ~err
        /\ doc = pre
        /\ ~IsObject(pre) =>
              /\ op = "value_has" => ret.val = VBool(FALSE)
              /\ op = "value_find" => ~ret.has /\ ret.ref = 0

\* has on a Null root answered false and the root still is Null
C27_Witness ==
    /\ op = "value_has"
    /\ ~err
    /\ IsNull(pre)
    /\ doc = NullNode
    /\ ret.val = VBool(FALSE)

\* C28: every lookup that takes a key identifies the member by the exact
\* bytes of the whole key, a NUL byte or a common prefix included:
\* ObjectRef::has(k) is true iff find(k) is non-empty iff count(k) = 1, and
\* ValueRef::operator[](std::string k) refers to or creates the member named
\* exactly k, the member ObjectRef::operator[](k) refers to.
C28_LookupsAgree ==
    /\ (op = "object_has" /\ ~err) =>
          /\ (ret.val = VBool(TRUE)) <=> (ObjectRef_find(doc, arg.key) # 0)
          /\ (ret.val = VBool(TRUE)) <=> (ObjectRef_count(doc, arg.key) = 1)
    /\ (op = "value_index_key" /\ ~err) =>
          /\ ret.ref \in DOMAIN doc.members
          /\ doc.members[ret.ref].name = arg.key
          /\ doc = ObjectRef_index(ObjectRef_ctor(pre).node, arg.key).node
          /\ ret.ref = ObjectRef_index(ObjectRef_ctor(pre).node, arg.key).ref

\* C29: ValueRef = ValueRef makes the target node equal in structure to what
\* the source node held and leaves the source as it was; when the two
\* handles are distinct objects that refer to the same node, the assignment
\* returns normally and leaves the kind and the content of the node as they
\* were.
C29_HandleAssignSafe ==
    /\ (op = "handle_assign" /\ arg.func = "other") =>
          /\ ~err
          /\ doc = arg.val
          /\ other.node = arg.val
    /\ (op = "value_assign") =>
          /\ ~err
          /\ other.node = pre
          /\ doc = pre
    /\ (/\ op = "handle_assign"
        /\ \/ arg.func \in {"this", "alias"}
           \/ arg.func = "array" /\ IsArray(pre)
           \/ arg.func = "object" /\ IsObject(pre)) =>
          /\ ~err
          /\ doc = pre
    /\ (op = "memberref_assign" /\ arg.idx # arg.last) =>
          /\ ~err
          /\ doc.members[arg.idx] = pre.members[arg.last]
          /\ \A m \in DOMAIN pre.members : m # arg.idx => doc.members[m] = pre.members[m]
          /\ Len(doc.members) = Len(pre.members)
    /\ (op = "memberref_assign" /\ arg.idx = arg.last) =>
          /\ ~err
          /\ doc = pre

\* C30: an operation that ends in a fatal error leaves the whole tree as it
\* was before the call: ValueRef[idx] out of range or on a node that is not
\* an Array, ValueRef[key] and ValueRef::push_back on a kind that is not
\* coerced, the construction of an ArrayRef or ObjectRef over a kind it does
\* not accept, and front() / back() on an empty array.
C30_ErrorsLeaveTree ==
    /\ (/\ op \in {"value_index", "value_index_key", "value_push_back",
                   "get_array", "get_object"}
        /\ err) => doc = pre
    /\ (op \in {"front", "back"} /\ err /\ ~IsNull(pre)) => doc = pre
    /\ (op \in {"front", "back"} /\ pre = ArrayNode(<<>>)) => err /\ doc = pre
    /\ (op = "value_index" /\ (~IsArray(pre) \/ arg.idx >= Len(pre.elems))) => err
    /\ (op \in {"value_index_key", "get_object"} /\ ~IsNull(pre) /\ ~IsObject(pre)) => err
    /\ (op \in {"value_push_back", "get_array"} /\ ~IsNull(pre) /\ ~IsArray(pre)) => err

\* front() threw on an empty array, which still is the empty array
C30_Witness ==
    /\ op = "front"
    /\ err
    /\ pre = ArrayNode(<<>>)
    /\ doc = ArrayNode(<<>>)

=============================================================================
